---- MODULE Spec2Model ----
(***************************************************************************)
(* A model of joatmon: safe file creation and writing (fs/write.rs),       *)
(* timestamped backups (fs/backup.rs, fs/paths.rs), the upward sentinel    *)
(* search (fs/find.rs), the readers and their errors (fs/read.rs), the     *)
(* JSON, YAML and TOML readers (formats/) and the working-directory guard  *)
(* (fs/working_dir.rs).                                                    *)
(*                                                                         *)
(* A text is a sequence of one-character strings, a path is a record       *)
(* [abs, comps] whose comps are texts, and the file system maps the        *)
(* absolute component sequences that exist to a directory or a file with   *)
(* its bytes.                                                              *)
(***************************************************************************)
EXTENDS Integers, Sequences, FiniteSets, TLC

VARIABLES
    fs,           \* the file system: existing absolute path -> entry
    now,          \* the wall clock (Utc::now), in ms after 2019-03-17T16:43:00Z
    cwd,          \* the process working directory (absolute components)
    pc,           \* per caller: the position in the running operation
    call,         \* per caller: the operation and its arguments
    backup_path,  \* per caller: safe_back_up_inner's local backup_path
    result,       \* per caller: the value returned by the operation
    pre,          \* per caller: the file system when the operation was called
    won,          \* per caller: the paths its exclusive creates created
    lost,         \* per caller: the paths its exclusive creates found taken
    calls,        \* number of operations called so far
    find,         \* the state of the running sentinel search
    guards        \* the WorkingDirectory values: saved_dir and what became of them

vars == <<fs, now, cwd, pc, call, backup_path, result, pre, won, lost, calls, find, guards>>

-----------------------------------------------------------------------------
(* Bounds of the model *)

\* Operations called in one behaviour.
MaxCalls == 2
\* Clock ticks in one behaviour.
MaxClock == 2
\* Directories above the start directory of a sentinel search.
MaxDepth == 5
\* Largest hop limit given to a sentinel search.
MaxLimit == 4

-----------------------------------------------------------------------------
(* Texts *)

DigitChars == <<"0", "1", "2", "3", "4", "5", "6", "7", "8", "9">>

\* n as w decimal digits, zero padded (chrono's {:04}, {:02}, {:03}).
Digits(n, w) == [i \in 1..w |-> DigitChars[((n \div (10 ^ (w - i))) % 10) + 1]]

\* str::replace([chars], ""): every occurrence of one of chars removed.
ReplaceWithEmpty(s, chars) == SelectSeq(s, LAMBDA c : c \notin chars)

\* Index of the last "." of a text, 0 when it has none.
LastDot(s) ==
    LET dots == {i \in 1..Len(s) : s[i] = "."}
    IN  IF dots = {} THEN 0 ELSE CHOOSE i \in dots : \A j \in dots : j <= i

-----------------------------------------------------------------------------
(* Paths (std::path::Path as the library uses it) *)

None == [none |-> TRUE]
Some(v) == [none |-> FALSE, val |-> v]

AbsPath(comps) == [abs |-> TRUE, comps |-> comps]
RelPath(comps) == [abs |-> FALSE, comps |-> comps]

DotDot == <<".", ".">>

\* Path::file_name: the last component, unless it is ".." or there is none.
file_name(p) ==
    IF p.comps = <<>> \/ p.comps[Len(p.comps)] = DotDot
    THEN None
    ELSE Some(p.comps[Len(p.comps)])

\* std's rsplit_file_at_dot: <<before, after>> around the last ".".
rsplit_file_at_dot(name) ==
    LET d == LastDot(name)
    IN  IF name = DotDot THEN <<Some(name), None>>
        ELSE IF d = 0 THEN <<None, Some(name)>>
        ELSE IF d = 1 THEN <<Some(name), None>>
        ELSE <<Some(SubSeq(name, 1, d - 1)), Some(SubSeq(name, d + 1, Len(name)))>>

\* Path::file_stem: before.or(after).
file_stem(p) ==
    IF file_name(p).none THEN None
    ELSE LET ba == rsplit_file_at_dot(file_name(p).val)
         IN  IF ba[1].none THEN ba[2] ELSE ba[1]

\* Path::extension: before.and(after).
extension(p) ==
    IF file_name(p).none THEN None
    ELSE LET ba == rsplit_file_at_dot(file_name(p).val)
         IN  IF ba[1].none THEN None ELSE ba[2]

\* Path::parent: None for the root and for the empty path.
parent(p) ==
    IF p.comps = <<>> THEN None
    ELSE Some([p EXCEPT !.comps = SubSeq(p.comps, 1, Len(p.comps) - 1)])

\* PathBuf::pop: the parent when there is one, unchanged otherwise.
pop(p) == IF parent(p).none THEN p ELSE parent(p).val

\* Path::join with a relative one-component name.
join(p, name) == [p EXCEPT !.comps = Append(p.comps, name)]

\* Path::with_file_name: the last component replaced (pushed when none).
with_file_name(p, name) ==
    IF file_name(p).none THEN join(p, name) ELSE join(pop(p), name)

is_absolute(p) == p.abs

\* The absolute components the operating system resolves a path to.
Resolve(p) == IF p.abs THEN p.comps ELSE cwd \o p.comps

-----------------------------------------------------------------------------
(* The file system and the system calls the library makes *)

Dir == [kind |-> "dir", data |-> <<>>]
File(data) == [kind |-> "file", data |-> data]

Exists(f, k) == k \in DOMAIN f
IsDirKey(f, k) == Exists(f, k) /\ f[k].kind = "dir"
IsFileKey(f, k) == Exists(f, k) /\ f[k].kind = "file"

Put(f, k, e) == [x \in DOMAIN f \cup {k} |-> IF x = k THEN e ELSE f[x]]

Prefix(k, n) == SubSeq(k, 1, n)

\* Why the directory holding key k cannot be used: "ok" when it can.
LookupParent(f, k) ==
    IF k = <<>> THEN "ok"
    ELSE LET bad == {n \in 0..(Len(k) - 1) : ~IsDirKey(f, Prefix(k, n))}
         IN  IF bad = {} THEN "ok"
             ELSE LET n == CHOOSE m \in bad : \A j \in bad : m <= j
                  IN  IF Exists(f, Prefix(k, n)) THEN "NotADirectory" ELSE "NotFound"

\* The outcome of a system call: an io::ErrorKind or "ok", and the file system after it.
Outcome(err, f) == [err |-> err, fs |-> f]

\* mkdir(2). can is FALSE when the call is refused (PermissionDenied).
Mkdir(f, k, can) ==
    IF k = <<>> THEN Outcome("AlreadyExists", f)
    ELSE IF LookupParent(f, k) # "ok" THEN Outcome(LookupParent(f, k), f)
    ELSE IF Exists(f, k) THEN Outcome("AlreadyExists", f)
    ELSE IF ~can THEN Outcome("PermissionDenied", f)
    ELSE Outcome("ok", Put(f, k, Dir))

\* std::fs::create_dir_all on key k; budget is the number of directories the
\* system lets it create before it refuses the next one.
RECURSIVE CreateDirAll(_, _, _)
CreateDirAll(f, k, budget) ==
    LET first == Mkdir(f, k, budget > 0)
    IN  IF first.err = "ok" THEN [err |-> "ok", fs |-> first.fs, budget |-> budget - 1]
        ELSE IF first.err # "NotFound"
        THEN IF IsDirKey(f, k)
             THEN [err |-> "ok", fs |-> f, budget |-> budget]
             ELSE [err |-> first.err, fs |-> f, budget |-> budget]
        ELSE LET up == CreateDirAll(f, Prefix(k, Len(k) - 1), budget)
             IN  IF up.err # "ok" THEN up
                 ELSE LET again == Mkdir(up.fs, k, up.budget > 0)
                      IN  IF again.err = "ok"
                          THEN [err |-> "ok", fs |-> again.fs, budget |-> up.budget - 1]
                          ELSE IF IsDirKey(up.fs, k)
                          THEN [err |-> "ok", fs |-> up.fs, budget |-> up.budget]
                          ELSE [err |-> again.err, fs |-> up.fs, budget |-> up.budget]

\* What open(2) answers before it looks at its flags.
OpenRefusal(f, k, can) ==
    IF LookupParent(f, k) # "ok" THEN LookupParent(f, k)
    ELSE IF ~can THEN "PermissionDenied"
    ELSE "ok"

\* OpenOptions::new().write(true).create_new(true).open(k): O_CREAT | O_EXCL.
OpenCreateNew(f, k, can) ==
    IF LookupParent(f, k) # "ok" THEN Outcome(LookupParent(f, k), f)
    ELSE IF Exists(f, k) THEN Outcome("AlreadyExists", f)
    ELSE IF ~can THEN Outcome("PermissionDenied", f)
    ELSE Outcome("ok", Put(f, k, File(<<>>)))

\* OpenOptions::new().write(true).create(true).open(k): O_CREAT, no O_TRUNC.
OpenCreate(f, k, can) ==
    IF OpenRefusal(f, k, can) # "ok" THEN Outcome(OpenRefusal(f, k, can), f)
    ELSE IF IsDirKey(f, k) THEN Outcome("IsADirectory", f)
    ELSE IF IsFileKey(f, k) THEN Outcome("ok", f)
    ELSE Outcome("ok", Put(f, k, File(<<>>)))

\* File::create(k), as std::fs::write and std::fs::copy open their target:
\* O_CREAT | O_TRUNC.
OpenCreateTruncate(f, k, can) ==
    IF OpenRefusal(f, k, can) # "ok" THEN Outcome(OpenRefusal(f, k, can), f)
    ELSE IF IsDirKey(f, k) THEN Outcome("IsADirectory", f)
    ELSE Outcome("ok", Put(f, k, File(<<>>)))

\* The bytes of a file after c is written at offset 0 of it.
Overwritten(old, c) ==
    IF Len(c) >= Len(old) THEN c ELSE c \o SubSeq(old, Len(c) + 1, Len(old))

\* Write::write_all(c) on a handle just opened on the file at k.
WriteAll(f, k, c, can) ==
    IF ~can THEN Outcome("StorageFull", f)
    ELSE Outcome("ok", Put(f, k, File(Overwritten(f[k].data, c))))

\* std::fs::copy(from, to); copied is the number of bytes that reach `to`
\* before the system fails the copy (all of them: it succeeds).
Copy(f, from, to, copied) ==
    IF LookupParent(f, from) # "ok" THEN Outcome(LookupParent(f, from), f)
    ELSE IF ~Exists(f, from) THEN Outcome("NotFound", f)
    ELSE IF IsDirKey(f, from) THEN Outcome("InvalidInput", f)
    ELSE LET opened == OpenCreateTruncate(f, to, TRUE)
             data   == f[from].data
         IN  IF opened.err # "ok" THEN opened
             ELSE IF copied < Len(data)
             THEN Outcome("StorageFull", Put(opened.fs, to, File(SubSeq(data, 1, copied))))
             ELSE Outcome("ok", Put(opened.fs, to, File(data)))

\* Path::is_file, Path::is_dir, Path::exists
is_file(f, p) == IsFileKey(f, Resolve(p))
is_dir(f, p) == IsDirKey(f, Resolve(p))

-----------------------------------------------------------------------------
(* Results and the file-write error (fs/write.rs) *)

Ok(v) == [ok |-> TRUE, val |-> v]
Err(e) == [ok |-> FALSE, err |-> e]
Unit == "()"

\* An std::io::Error of the given kind.
IOError(kind) == [type |-> "io::Error", kind |-> kind]

\* FileWriteError::other
FileWriteError_other(e) == [variant |-> "Other", inner |-> e]

\* FileWriteError_convert with no AlreadyExists arm.
FileWriteError_convert_AllOther(e, path) == FileWriteError_other(e)

\* FileWriteError::convert
FileWriteError_convert(e, path) ==
    IF e.kind = "AlreadyExists"
    THEN [variant |-> "AlreadyExists", path |-> path]
    ELSE FileWriteError_other(e)

\* FileWriteError::kind
FileWriteError_kind(e) ==
    IF e.variant = "AlreadyExists" THEN "AlreadyExists" ELSE "Other"

FileWriteError_is_already_exists(e) == FileWriteError_kind(e) = "AlreadyExists"
FileWriteError_is_other(e) == FileWriteError_kind(e) = "Other"

\* ensure_dir classifying its failure with convert, as the file errors are.
ensure_dir_Convert(f, file_path, budget) ==
    LET dir == pop(file_path)
        r   == CreateDirAll(f, Resolve(dir), budget)
    IN  IF ~dir.abs /\ dir.comps = <<>> THEN [res |-> Ok(Unit), fs |-> f]
        ELSE IF r.err = "ok" THEN [res |-> Ok(Unit), fs |-> r.fs]
        ELSE [res |-> Err(FileWriteError_convert(IOError(r.err), dir)), fs |-> r.fs]

\* ensure_dir: create_dir_all on the path with its last component popped.
ensure_dir(f, file_path, budget) ==
    LET dir == pop(file_path)
        r   == CreateDirAll(f, Resolve(dir), budget)
    IN  IF ~dir.abs /\ dir.comps = <<>> THEN [res |-> Ok(Unit), fs |-> f]
        ELSE IF r.err = "ok" THEN [res |-> Ok(Unit), fs |-> r.fs]
        ELSE [res |-> Err(FileWriteError_other(IOError(r.err))), fs |-> r.fs]

-----------------------------------------------------------------------------
(* Timestamps and backup names (fs/paths.rs, fs/backup.rs) *)

\* DateTimeAt under a clock that has stopped.
DateTimeAt_Stopped(t) ==
    [year |-> 2019, month |-> 3, day |-> 17, hour |-> 16, minute |-> 43,
     second |-> 0, milli |-> 0]

\* The instant t milliseconds after 2019-03-17T16:43:00Z.
DateTimeAt(t) ==
    [year |-> 2019, month |-> 3, day |-> 17, hour |-> 16, minute |-> 43,
     second |-> (t \div 1000) % 60, milli |-> t % 1000]

\* DateTime::to_rfc3339_opts(SecondsFormat::Millis, true)
to_rfc3339_millis(dt) ==
    Digits(dt.year, 4) \o <<"-">> \o Digits(dt.month, 2) \o <<"-">> \o Digits(dt.day, 2)
    \o <<"T">> \o Digits(dt.hour, 2) \o <<":">> \o Digits(dt.minute, 2) \o <<":">>
    \o Digits(dt.second, 2) \o <<".">> \o Digits(dt.milli, 3) \o <<"Z">>

\* file_name_safe_timestamp with the "." of the fraction kept.
file_name_safe_timestamp_KeepDot(dt) ==
    ReplaceWithEmpty(to_rfc3339_millis(dt), {"-", ":"})

\* file_name_safe_timestamp
file_name_safe_timestamp(dt) ==
    ReplaceWithEmpty(to_rfc3339_millis(dt), {"-", ":", "."})

\* label_file_name
label_file_name(path, label) ==
    IF file_stem(path).none THEN None
    ELSE LET labelled == file_stem(path).val \o <<"-">> \o label
             named    == IF extension(path).none THEN labelled
                         ELSE labelled \o <<".">> \o extension(path).val
         IN  Some(with_file_name(path, named))

\* BackupAssertion without the test of is_absolute.
BackupAssertion_FileOnly(f, path) == is_file(f, path)

\* The assertion of generate_backup_path and of safe_back_up_inner.
BackupAssertion(f, path) == is_file(f, path) /\ is_absolute(path)

\* generate_backup_path, where its assertion holds
generate_backup_path(path, dt) == label_file_name(path, file_name_safe_timestamp(dt)).val

-----------------------------------------------------------------------------
(* The callers, their inputs and the initial file systems *)

Procs == {"a", "b"}

cD == <<"d">>
cS == <<"s">>
cFE == <<"f", ".", "e">>
cF == <<"f">>
cX == <<"x">>

\* The name safe_back_up gives the first backup of /d/f.e made at time 0.
TakenName == <<"f", "-">> \o file_name_safe_timestamp(DateTimeAt(0)) \o <<".", "e">>

\* Paths given to safe_create_file and safe_write_file.
WritePaths ==
    { AbsPath(<<cD, cFE>>), AbsPath(<<cD, cS, cFE>>), AbsPath(<<cD>>),
      AbsPath(<<cD, cFE, cX>>) }

\* Paths given to safe_back_up.
BackupPaths ==
    { AbsPath(<<cD, cFE>>), AbsPath(<<cD, cF>>), AbsPath(<<cD>>), RelPath(<<cD, cFE>>) }

\* The paths concurrent callers race for.
RacePaths == { AbsPath(<<cD, cFE>>), AbsPath(<<cD, cF>>), AbsPath(<<cD>>) }

\* Contents the racing writers give.
RaceContents == { <<2>> }

\* Contents given to the writers.
Contents == { <<2>>, <<1, 2, 1>> }

RootOnly == (<<>> :> Dir)

\* The file systems a behaviour starts from.
InitialFileSystems ==
    { RootOnly,
      Put(RootOnly, <<cD>>, Dir),
      Put(Put(RootOnly, <<cD>>, Dir), <<cD, cFE>>, File(<<1, 1>>)),
      Put(Put(Put(RootOnly, <<cD>>, Dir), <<cD, cFE>>, File(<<1, 1>>)),
          <<cD, cF>>, File(<<>>)),
      Put(Put(Put(RootOnly, <<cD>>, Dir), <<cD, cFE>>, File(<<1, 1>>)),
          <<cD, TakenName>>, File(<<2, 2>>)) }

NoCall == [op |-> "none"]
NoPath == AbsPath(<<>>)
NoResult == [ok |-> TRUE, val |-> "none"]
\* The WorkingDirectory values a caller may hold, and one not yet created.
Guards == {"g1", "g2", "g3"}
NoGuard == [state |-> "none", saved_dir |-> None, born |-> 0, died |-> 0]

NoFind ==
    [pc |-> "idle", kind |-> "dir", name |-> <<>>, start |-> NoPath, limit |-> None,
     dir |-> NoPath, count |-> 0, result |-> None, inspected |-> {},
     tree |-> RootOnly, last |-> None, overflow_checks |-> FALSE]

Returned(p) == pc[p] \in {"returned", "written", "panicked"}

\* Everything but the file system, at the start.
InitRest ==
    /\ now = 0
    /\ cwd = <<>>
    /\ pc = [p \in Procs |-> "idle"]
    /\ call = [p \in Procs |-> NoCall]
    /\ backup_path = [p \in Procs |-> NoPath]
    /\ result = [p \in Procs |-> NoResult]
    /\ pre = [p \in Procs |-> RootOnly]
    /\ won = [p \in Procs |-> {}]
    /\ lost = [p \in Procs |-> {}]
    /\ calls = 0
    /\ find = NoFind
    /\ guards = [g \in Guards |-> NoGuard]

Init == fs \in InitialFileSystems /\ InitRest

\* The racing callers start where /d/f.e exists.
InitConc == fs \in {f \in InitialFileSystems : Exists(f, <<cD, cFE>>)} /\ InitRest

\* The start of a call by an idle caller: the file system is remembered.
Begin(p, at) ==
    /\ pc[p] = "idle"
    /\ calls < MaxCalls
    /\ calls' = calls + 1
    /\ pc' = [pc EXCEPT ![p] = at]
    /\ pre' = [pre EXCEPT ![p] = fs]

-----------------------------------------------------------------------------
(* safe_create_file, followed by the caller's write through the handle *)

CallSafeCreateFile(p, paths, bytes) ==
    /\ Begin(p, "cf_ensure")
    /\ \E path \in paths, overwrite \in BOOLEAN, contents \in bytes :
         call' = [call EXCEPT ![p] = [op |-> "safe_create_file", path |-> path,
                                      overwrite |-> overwrite, contents |-> contents]]
    /\ UNCHANGED <<fs, now, cwd, backup_path, result, won, lost, find, guards>>

\* safe_create_file_open with create(true) on both branches.
safe_create_file_open_NoExcl(f, path, overwrite, can) == OpenCreate(f, Resolve(path), can)

\* The open of safe_create_file: create(true) or create_new(true), never truncate.
safe_create_file_open(f, path, overwrite, can) ==
    IF overwrite THEN OpenCreate(f, Resolve(path), can)
    ELSE OpenCreateNew(f, Resolve(path), can)

\* safe_create_file: ensure_dir(path)?
CfEnsureDir(p) ==
    /\ pc[p] = "cf_ensure"
    /\ \E budget \in 0..2 :
         LET r == ensure_dir(fs, call[p].path, budget)
         IN  /\ fs' = r.fs
             /\ IF r.res.ok
                THEN /\ pc' = [pc EXCEPT ![p] = "cf_open"]
                     /\ UNCHANGED result
                ELSE /\ pc' = [pc EXCEPT ![p] = "returned"]
                     /\ result' = [result EXCEPT ![p] = r.res]
    /\ UNCHANGED <<now, cwd, call, backup_path, pre, won, lost, calls, find, guards>>

\* safe_create_file: options.open(path).map_err(convert); inside safe_write_file
\* the handle goes on to write_all and an error is returned by `?`.
CfOpen(p) ==
    /\ pc[p] = "cf_open"
    /\ \E can \in BOOLEAN :
         LET o == safe_create_file_open(fs, call[p].path, call[p].overwrite, can)
             k == Resolve(call[p].path)
         IN  /\ fs' = o.fs
             /\ result' = [result EXCEPT ![p] =
                    IF o.err = "ok" THEN Ok("File")
                    ELSE Err(FileWriteError_convert(IOError(o.err), call[p].path))]
             /\ pc' = [pc EXCEPT ![p] =
                    IF call[p].op = "safe_write_file" /\ o.err = "ok"
                    THEN "wf_write_all" ELSE "returned"]
             /\ won' = [won EXCEPT ![p] =
                    IF ~call[p].overwrite /\ o.err = "ok" THEN @ \cup {k} ELSE @]
             /\ lost' = [lost EXCEPT ![p] =
                    IF ~call[p].overwrite /\ o.err = "AlreadyExists" THEN @ \cup {k} ELSE @]
    /\ UNCHANGED <<now, cwd, call, backup_path, pre, calls, find, guards>>

\* The caller of safe_create_file writes its bytes through the returned handle.
HandleWrite(p) ==
    /\ pc[p] = "returned"
    /\ call[p].op = "safe_create_file"
    /\ result[p].ok
    /\ fs' = WriteAll(fs, Resolve(call[p].path), call[p].contents, TRUE).fs
    /\ pc' = [pc EXCEPT ![p] = "written"]
    /\ UNCHANGED <<now, cwd, call, backup_path, result, pre, won, lost, calls, find, guards>>

-----------------------------------------------------------------------------
(* safe_write_file *)

CallSafeWriteFile(p, paths, bytes) ==
    /\ Begin(p, "wf_ensure")
    /\ \E path \in paths, overwrite \in BOOLEAN, contents \in bytes :
         call' = [call EXCEPT ![p] = [op |-> "safe_write_file", path |-> path,
                                      overwrite |-> overwrite, contents |-> contents]]
    /\ UNCHANGED <<fs, now, cwd, backup_path, result, won, lost, find, guards>>

\* safe_write_file: ensure_dir(path)?
WfEnsureDir(p) ==
    /\ pc[p] = "wf_ensure"
    /\ \E budget \in 0..2 :
         LET r == ensure_dir(fs, call[p].path, budget)
         IN  /\ fs' = r.fs
             /\ IF r.res.ok
                THEN /\ pc' = [pc EXCEPT ![p] =
                            IF call[p].overwrite THEN "wf_create" ELSE "cf_ensure"]
                     /\ UNCHANGED result
                ELSE /\ pc' = [pc EXCEPT ![p] = "returned"]
                     /\ result' = [result EXCEPT ![p] = r.res]
    /\ UNCHANGED <<now, cwd, call, backup_path, pre, won, lost, calls, find, guards>>

\* fs_write_open without the truncation.
fs_write_open_NoTruncate(f, path, can) == OpenCreate(f, Resolve(path), can)

\* std::fs::write opens its target with File::create.
fs_write_open(f, path, can) == OpenCreateTruncate(f, Resolve(path), can)

\* safe_write_file, overwrite: the File::create of write(path, contents)
WfCreate(p) ==
    /\ pc[p] = "wf_create"
    /\ \E can \in BOOLEAN :
         LET o == fs_write_open(fs, call[p].path, can)
         IN  /\ fs' = o.fs
             /\ IF o.err = "ok"
                THEN /\ pc' = [pc EXCEPT ![p] = "wf_write"]
                     /\ UNCHANGED result
                ELSE /\ pc' = [pc EXCEPT ![p] = "returned"]
                     /\ result' = [result EXCEPT ![p] =
                            Err(FileWriteError_convert(IOError(o.err), call[p].path))]
    /\ UNCHANGED <<now, cwd, call, backup_path, pre, won, lost, calls, find, guards>>

\* safe_write_file: the write_all of write(path, contents) (overwrite) or of
\* file.write_all(contents) (no overwrite), then Ok(())
WfWriteAll(p) ==
    /\ pc[p] \in {"wf_write", "wf_write_all"}
    /\ \E can \in BOOLEAN :
         LET o == WriteAll(fs, Resolve(call[p].path), call[p].contents, can)
         IN  /\ fs' = o.fs
             /\ result' = [result EXCEPT ![p] =
                    IF o.err = "ok" THEN Ok(Unit)
                    ELSE Err(FileWriteError_convert(IOError(o.err), call[p].path))]
    /\ pc' = [pc EXCEPT ![p] = "returned"]
    /\ UNCHANGED <<now, cwd, call, backup_path, pre, won, lost, calls, find, guards>>

-----------------------------------------------------------------------------
(* safe_back_up *)

CallSafeBackUp(p, paths) ==
    /\ Begin(p, "bk_assert")
    /\ \E path \in paths :
         call' = [call EXCEPT ![p] = [op |-> "safe_back_up", path |-> path]]
    /\ UNCHANGED <<fs, now, cwd, backup_path, result, won, lost, find, guards>>

\* safe_back_up_inner: the assertion and the first candidate
BkAssert(p) ==
    /\ pc[p] = "bk_assert"
    /\ IF BackupAssertion(fs, call[p].path)
       THEN /\ backup_path' = [backup_path EXCEPT ![p] =
                   generate_backup_path(call[p].path, DateTimeAt(now))]
            /\ pc' = [pc EXCEPT ![p] = "bk_open"]
       ELSE /\ pc' = [pc EXCEPT ![p] = "panicked"]
            /\ UNCHANGED backup_path
    /\ UNCHANGED <<fs, now, cwd, call, result, pre, won, lost, calls, find, guards>>

\* backup_open without create_new: an existing candidate is opened.
backup_open_NoExcl(f, path, can) == OpenCreate(f, Resolve(path), can)

\* The exclusive create of the backup loop.
backup_open(f, path, can) == OpenCreateNew(f, Resolve(path), can)

\* safe_back_up_inner: one turn of the loop; can is FALSE when the system
\* refuses the create.
BkTry(p, can) ==
    /\ pc[p] = "bk_open"
    /\ LET o == backup_open(fs, backup_path[p], can)
           k == Resolve(backup_path[p])
       IN  /\ fs' = o.fs
           /\ IF o.err = "ok"
              THEN /\ pc' = [pc EXCEPT ![p] = "bk_copy"]
                   /\ won' = [won EXCEPT ![p] = @ \cup {k}]
                   /\ UNCHANGED <<backup_path, result, lost>>
              ELSE IF o.err = "AlreadyExists"
              THEN /\ lost' = [lost EXCEPT ![p] = @ \cup {k}]
                   /\ IF BackupAssertion(fs, call[p].path)
                      THEN /\ backup_path' = [backup_path EXCEPT ![p] =
                                  generate_backup_path(call[p].path, DateTimeAt(now))]
                           /\ UNCHANGED pc
                      ELSE /\ pc' = [pc EXCEPT ![p] = "panicked"]
                           /\ UNCHANGED backup_path
                   /\ UNCHANGED <<result, won>>
              ELSE /\ pc' = [pc EXCEPT ![p] = "returned"]
                   /\ result' = [result EXCEPT ![p] = Err(IOError(o.err))]
                   /\ UNCHANGED <<backup_path, won, lost>>
    /\ UNCHANGED <<now, cwd, call, pre, calls, find, guards>>

\* safe_back_up_inner: one turn of the loop
BkOpen(p) == \E can \in BOOLEAN : BkTry(p, can)

\* backup_copy removing the backup when the copy fails.
backup_copy_RemoveOnError(f, path, backup, copied) ==
    LET o == Copy(f, Resolve(path), Resolve(backup), copied)
    IN  IF o.err = "ok" THEN o
        ELSE Outcome(o.err, [k \in DOMAIN o.fs \ {Resolve(backup)} |-> o.fs[k]])

\* backup_copy with the arguments of copy exchanged.
backup_copy_Swapped(f, path, backup, copied) ==
    Copy(f, Resolve(backup), Resolve(path), copied)

\* The copy of the source into the placeholder.
backup_copy(f, path, backup, copied) == Copy(f, Resolve(path), Resolve(backup), copied)

\* safe_back_up_inner: copy(path, &backup_path)?; Ok(backup_path)
BkCopy(p) ==
    /\ pc[p] = "bk_copy"
    /\ \E copied \in 0..Len(fs[Resolve(call[p].path)].data) :
         LET o == backup_copy(fs, call[p].path, backup_path[p], copied)
         IN  /\ fs' = o.fs
             /\ result' = [result EXCEPT ![p] =
                    IF o.err = "ok" THEN Ok(backup_path[p]) ELSE Err(IOError(o.err))]
    /\ pc' = [pc EXCEPT ![p] = "returned"]
    /\ UNCHANGED <<now, cwd, call, backup_path, pre, won, lost, calls, find, guards>>

-----------------------------------------------------------------------------
(* The caller takes the result; time passes *)

Return(p) ==
    /\ Returned(p)
    /\ pc' = [pc EXCEPT ![p] = "idle"]
    /\ call' = [call EXCEPT ![p] = NoCall]
    /\ backup_path' = [backup_path EXCEPT ![p] = NoPath]
    /\ result' = [result EXCEPT ![p] = NoResult]
    /\ pre' = [pre EXCEPT ![p] = RootOnly]
    /\ won' = [won EXCEPT ![p] = {}]
    /\ lost' = [lost EXCEPT ![p] = {}]
    /\ UNCHANGED <<fs, now, cwd, calls, find, guards>>

Tick ==
    /\ now < MaxClock
    /\ now' = now + 1
    /\ UNCHANGED <<fs, cwd, pc, call, backup_path, result, pre, won, lost, calls, find, guards>>

\* One caller at a time: an operation runs to its return before the next is called.
Alone(p) == \A q \in Procs \ {p} : pc[q] = "idle"

Next ==
    \/ Tick
    \/ \E p \in Procs : Alone(p) /\ CallSafeCreateFile(p, WritePaths, Contents)
    \/ \E p \in Procs : Alone(p) /\ CfEnsureDir(p)
    \/ \E p \in Procs : Alone(p) /\ CfOpen(p)
    \/ \E p \in Procs : Alone(p) /\ HandleWrite(p)
    \/ \E p \in Procs : Alone(p) /\ CallSafeWriteFile(p, WritePaths, Contents)
    \/ \E p \in Procs : Alone(p) /\ WfEnsureDir(p)
    \/ \E p \in Procs : Alone(p) /\ WfCreate(p)
    \/ \E p \in Procs : Alone(p) /\ WfWriteAll(p)
    \/ \E p \in Procs : Alone(p) /\ CallSafeBackUp(p, BackupPaths)
    \/ \E p \in Procs : Alone(p) /\ BkAssert(p)
    \/ \E p \in Procs : Alone(p) /\ BkOpen(p)
    \/ \E p \in Procs : Alone(p) /\ BkCopy(p)
    \/ \E p \in Procs : Alone(p) /\ Return(p)

Spec == Init /\ [][Next]_vars

\* Callers on different threads or processes, each making one call, interleaved
\* at each system call.
NextConc ==
    \/ Tick
    \/ \E p \in Procs : CallSafeCreateFile(p, RacePaths, RaceContents)
    \/ \E p \in Procs : CfEnsureDir(p)
    \/ \E p \in Procs : CfOpen(p)
    \/ \E p \in Procs : HandleWrite(p)
    \/ \E p \in Procs : CallSafeWriteFile(p, RacePaths, RaceContents)
    \/ \E p \in Procs : WfEnsureDir(p)
    \/ \E p \in Procs : WfCreate(p)
    \/ \E p \in Procs : WfWriteAll(p)
    \/ \E p \in Procs : CallSafeBackUp(p, RacePaths)
    \/ \E p \in Procs : BkAssert(p)
    \/ \E p \in Procs : BkOpen(p)
    \/ \E p \in Procs : BkCopy(p)

SpecConc == InitConc /\ [][NextConc]_vars

-----------------------------------------------------------------------------
(* The backup's retry loop under a clock that advances *)

\* The backup name of /d/f.e for the instant t.
BackupNameAt(t) == <<"f", "-">> \o file_name_safe_timestamp(DateTimeAt(t)) \o <<".", "e">>

\* /d/f.e with the backup names of the instants before n taken.
Occupied(n) ==
    [k \in {<<>>, <<cD>>, <<cD, cFE>>} \cup { <<cD, BackupNameAt(t)>> : t \in 0..(n - 1) } |->
        IF k \in {<<>>, <<cD>>} THEN Dir
        ELSE IF k = <<cD, cFE>> THEN File(<<1, 1>>)
        ELSE File(<<2, 2>>)]

\* The names of at most MaxClock instants are taken: the clock can pass them.
InitRetry == fs \in { Occupied(n) : n \in 0..MaxClock } /\ InitRest

\* One caller backs /d/f.e up, time and again, while the clock can advance; the
\* last instant of the clock is reached by a running call only.
NextRetry ==
    \/ Tick
    \/ now < MaxClock /\ CallSafeBackUp("a", {AbsPath(<<cD, cFE>>)})
    \/ BkAssert("a")
    \/ BkOpen("a")
    \/ BkCopy("a")
    \/ Return("a")

\* The clock advances, and a step of the call that the system does not refuse
\* is taken when it stays possible.
SpecRetry ==
    /\ InitRetry /\ [][NextRetry]_vars
    /\ WF_vars(Tick)
    /\ WF_vars(BkAssert("a"))
    /\ WF_vars(BkTry("a", TRUE))
    /\ WF_vars(BkCopy("a"))

-----------------------------------------------------------------------------
(* The candidate backup path as a function of the path and the instant *)

cHidden == <<".", "f">>
cABC == <<"a", ".", "b", ".", "c">>
cFDot == <<"f", ".">>
cDashed == <<"f", "-", "1", ".", "e">>

\* The files whose backup path is computed.
LabelFiles ==
    { <<cD, cFE>>, <<cD, cF>>, <<cD, cHidden>>, <<cD, cABC>>, <<cD, cFDot>>,
      <<cD, cDashed>>, <<cD, cS, cFE>>, <<cF>> }

LabelFileSystem ==
    [k \in {<<>>, <<cD>>, <<cD, cS>>} \cup LabelFiles |->
        IF k \in LabelFiles THEN File(<<1>>) ELSE Dir]

\* Paths given to generate_backup_path: the files, a directory, a relative path.
LabelPaths == { AbsPath(k) : k \in LabelFiles } \cup { AbsPath(<<cD>>), RelPath(<<cD, cFE>>) }

\* Instants given to generate_backup_path: those of the clock and some others.
LabelInstants ==
    { DateTimeAt(t) : t \in 0..MaxClock } \cup
    { [year |-> 2020, month |-> 12, day |-> 31, hour |-> 23, minute |-> 59,
       second |-> 59, milli |-> 999],
      [year |-> 1999, month |-> 1, day |-> 1, hour |-> 0, minute |-> 0,
       second |-> 0, milli |-> 7],
      [year |-> 2024, month |-> 2, day |-> 29, hour |-> 9, minute |-> 5,
       second |-> 30, milli |-> 120] }

InitLabel == fs = LabelFileSystem /\ InitRest

LabelCall(p) ==
    /\ Begin(p, "lb_run")
    /\ \E path \in LabelPaths, dt \in LabelInstants :
         call' = [call EXCEPT ![p] = [op |-> "generate_backup_path", path |-> path, dt |-> dt]]
    /\ UNCHANGED <<fs, now, cwd, backup_path, result, won, lost, find, guards>>

\* generate_backup_path: the assertion, then the labelled name
LabelRun(p) ==
    /\ pc[p] = "lb_run"
    /\ IF BackupAssertion(fs, call[p].path)
       THEN /\ pc' = [pc EXCEPT ![p] = "returned"]
            /\ result' = [result EXCEPT ![p] = Ok(generate_backup_path(call[p].path, call[p].dt))]
       ELSE /\ pc' = [pc EXCEPT ![p] = "panicked"]
            /\ UNCHANGED result
    /\ UNCHANGED <<fs, now, cwd, call, backup_path, pre, won, lost, calls, find, guards>>

NextLabel == LabelCall("a") \/ LabelRun("a") \/ Return("a")

SpecLabel == InitLabel /\ [][NextLabel]_vars

-----------------------------------------------------------------------------
(* The sentinel search (fs/find.rs) *)

\* limit.unwrap_or(30)
DefaultLimit == 30

\* The greatest and the least i32, the type of limit and of count.
I32Max == 2147483647
I32Min == (-I32Max) - 1

cSentinel == <<"S">>

\* The name of the directory at depth i of the searched chain.
LevelName(i) == <<"n">> \o Digits(i, 2)

\* The components of the chain's directory at depth n (the root at depth 0).
Chain(n) == [i \in 1..n |-> LevelName(i)]

ChainOnly == [k \in {Chain(n) : n \in 0..MaxDepth} |-> Dir]

Sentinel(kind) == IF kind = "dir" THEN Dir ELSE File(<<1>>)

\* A directory beside the chain: no start directory has it as an ancestor.
SideDir == Append(Chain(1), <<"x">>)

\* The chain with the sentinel name placed, as a directory or as a file, in at
\* most two of its directories, or in the directory beside the chain and in at
\* most one directory of the chain.
FindFileSystems ==
    {ChainOnly}
    \cup { Put(ChainOnly, Append(Chain(i), cSentinel), Sentinel(a)) :
             i \in 0..MaxDepth, a \in {"dir", "file"} }
    \cup { Put(Put(ChainOnly, Append(Chain(i), cSentinel), Sentinel(a)),
               Append(Chain(j), cSentinel), Sentinel(b)) :
             i \in 0..MaxDepth, j \in 0..MaxDepth, a \in {"dir", "file"}, b \in {"dir", "file"} }
    \cup { Put(Put(ChainOnly, SideDir, Dir), Append(SideDir, cSentinel), Sentinel(a)) :
             a \in {"dir", "file"} }
    \cup { Put(Put(Put(ChainOnly, SideDir, Dir), Append(SideDir, cSentinel), Sentinel(a)),
               Append(Chain(i), cSentinel), Sentinel(a)) :
             i \in 0..MaxDepth, a \in {"dir", "file"} }

StartDirs == { AbsPath(Chain(n)) : n \in 0..MaxDepth }

Limits == {None} \cup { Some(l) : l \in (-1)..MaxLimit } \cup {Some(I32Min)}

InitFind == fs \in FindFileSystems /\ InitRest

\* sentinel_matches taking an entry of any type for the sentinel.
sentinel_matches_AnyType(f, kind, path) == Exists(f, Resolve(path))

\* The test a search applies to dir.join(sentinel_name): is_dir or is_file.
sentinel_matches(f, kind, path) ==
    IF kind = "dir" THEN is_dir(f, path) ELSE is_file(f, path)

\* limit_reached one turn early.
limit_reached_Early(count) == count <= 1

\* if count == 0 { return None; }
limit_reached(count) == count = 0

\* i32::wrapping_sub(count, 1): what count -= 1 leaves in a build without
\* overflow checks.
wrapping_decrement(count) == IF count = I32Min THEN I32Max ELSE count - 1

\* count -= 1 on the state t of a search: a build with overflow checks panics
\* where the result is no i32, a build without them wraps.
decrement(t) ==
    IF t.overflow_checks /\ t.count = I32Min
    THEN [t EXCEPT !.pc = "panicked"]
    ELSE [t EXCEPT !.count = wrapping_decrement(t.count)]

\* find_loop looking for the sentinel before it tests the count.
find_loop_CheckFirst(f, s) ==
    LET sentinel_path == join(s.dir, s.name)
        t == [s EXCEPT !.inspected = s.inspected \cup {sentinel_path}]
    IN  IF sentinel_matches(f, s.kind, sentinel_path)
        THEN [t EXCEPT !.pc = "done", !.result = Some(sentinel_path)]
        ELSE IF s.count = 0
        THEN [t EXCEPT !.pc = "done", !.result = None]
        ELSE IF parent(s.dir).none
        THEN [t EXCEPT !.pc = "done", !.result = None]
        ELSE decrement([t EXCEPT !.dir = parent(s.dir).val])

\* find_loop testing the sentinel in the parent of the directory it is at.
find_loop_FromParent(f, s) ==
    LET sentinel_path == join(pop(s.dir), s.name)
        t == [s EXCEPT !.inspected = s.inspected \cup {sentinel_path}]
    IN  IF limit_reached(s.count)
        THEN [s EXCEPT !.pc = "done", !.result = None]
        ELSE IF sentinel_matches(f, s.kind, sentinel_path)
        THEN [t EXCEPT !.pc = "done", !.result = Some(sentinel_path)]
        ELSE IF parent(s.dir).none
        THEN [t EXCEPT !.pc = "done", !.result = None]
        ELSE decrement([t EXCEPT !.dir = parent(s.dir).val])

\* find_loop going on from a directory that has no parent.
find_loop_PopAtRoot(f, s) ==
    LET sentinel_path == join(s.dir, s.name)
        t == [s EXCEPT !.inspected = s.inspected \cup {sentinel_path}]
    IN  IF limit_reached(s.count)
        THEN [s EXCEPT !.pc = "done", !.result = None]
        ELSE IF sentinel_matches(f, s.kind, sentinel_path)
        THEN [t EXCEPT !.pc = "done", !.result = Some(sentinel_path)]
        ELSE decrement([t EXCEPT !.dir = pop(s.dir)])

\* One turn of the loop of find_sentinel_dir / find_sentinel_file. The paths
\* handed to is_dir / is_file are recorded in inspected.
find_loop(f, s) ==
    LET sentinel_path == join(s.dir, s.name)
        t == [s EXCEPT !.inspected = s.inspected \cup {sentinel_path}]
    IN  IF limit_reached(s.count)
        THEN [s EXCEPT !.pc = "done", !.result = None]
        ELSE IF sentinel_matches(f, s.kind, sentinel_path)
        THEN [t EXCEPT !.pc = "done", !.result = Some(sentinel_path)]
        ELSE IF parent(s.dir).none
        THEN [t EXCEPT !.pc = "done", !.result = None]
        ELSE decrement([t EXCEPT !.dir = parent(s.dir).val])

\* find_entry starting from the count the previous search left behind.
find_entry_KeepCount(f, kind, name, start, limit, overflow_checks, prev) ==
    [pc |-> "loop", kind |-> kind, name |-> name, start |-> start,
     limit |-> limit, dir |-> start,
     count |-> IF prev.pc = "done" THEN prev.count
               ELSE IF limit.none THEN DefaultLimit ELSE limit.val,
     result |-> None, inspected |-> {}, tree |-> f, last |-> None,
     overflow_checks |-> overflow_checks]

\* let mut dir = start_dir; let mut count = limit.unwrap_or(30); both are locals
\* set from the arguments, and prev, what the previous search left, is not read.
\* tree remembers the file system the search was called on.
find_entry(f, kind, name, start, limit, overflow_checks, prev) ==
    [pc |-> "loop", kind |-> kind, name |-> name, start |-> start,
     limit |-> limit, dir |-> start,
     count |-> IF limit.none THEN DefaultLimit ELSE limit.val,
     result |-> None, inspected |-> {}, tree |-> f, last |-> None,
     overflow_checks |-> overflow_checks]

\* find_sentinel_dir(name, start_dir, limit) or find_sentinel_file(...) is called,
\* in a build with or without overflow checks (debug or release profile).
FindCall ==
    /\ find.pc = "idle"
    /\ \E kind \in {"dir", "file"}, start \in StartDirs, limit \in Limits,
          overflow_checks \in BOOLEAN :
         find' = find_entry(fs, kind, cSentinel, start, limit, overflow_checks, find)
    /\ UNCHANGED <<fs, now, cwd, pc, call, backup_path, result, pre, won, lost, calls, guards>>

\* The search that has just returned is called once more with the same
\* arguments; last remembers what the first call returned.
FindAgain ==
    /\ find.pc = "done"
    /\ find.last.none
    /\ find' = [find_entry(fs, find.kind, find.name, find.start, find.limit,
                            find.overflow_checks, find)
                   EXCEPT !.tree = find.tree, !.last = Some(find.result)]
    /\ UNCHANGED <<fs, now, cwd, pc, call, backup_path, result, pre, won, lost, calls, guards>>

FindStep ==
    /\ find.pc = "loop"
    /\ find' = find_loop(fs, find)
    /\ UNCHANGED <<fs, now, cwd, pc, call, backup_path, result, pre, won, lost, calls, guards>>

\* The caller takes the result, or the panic has unwound.
FindReturn ==
    /\ find.pc \in {"done", "panicked"}
    /\ find' = NoFind
    /\ UNCHANGED <<fs, now, cwd, pc, call, backup_path, result, pre, won, lost, calls, guards>>

NextFind == FindCall \/ FindStep \/ FindAgain \/ FindReturn

SpecFind == InitFind /\ [][NextFind]_vars

\* The trees that hold the sentinel name at most once.
InitFindFair ==
    /\ fs \in { f \in FindFileSystems :
                  Cardinality({k \in DOMAIN f : k # <<>> /\ k[Len(k)] = cSentinel}) <= 1 }
    /\ InitRest

\* A search that is called runs: a turn of the loop that can be taken is taken.
SpecFindFair == InitFindFair /\ [][NextFind]_vars /\ WF_vars(FindStep)

\* The hops above start at which start's ancestor holds the sentinel of the kind.
SentinelHops(f, kind, name, start) ==
    { h \in 0..Len(start.comps) :
        sentinel_matches(f, kind, join(AbsPath(Prefix(start.comps, Len(start.comps) - h)), name)) }

Min(S) == CHOOSE x \in S : \A y \in S : x <= y

\* The ancestor of start h hops above it.
Ancestor(start, h) == [start EXCEPT !.comps = Prefix(start.comps, Len(start.comps) - h)]

-----------------------------------------------------------------------------
(* The readers (fs/read.rs) *)

\* A byte that is no UTF-8: read_to_string refuses the content that holds it.
BadByte == "0xFF"

\* String::from_utf8 on the bytes read
Utf8Valid(data) == \A i \in 1..Len(data) : data[i] # BadByte

\* File::open(k): open(2) with O_RDONLY, CreateFileW on Windows. A directory is
\* opened on Unix and refused with ERROR_ACCESS_DENIED on Windows; a path through
\* a regular file is ENOTDIR on Unix and ERROR_PATH_NOT_FOUND on Windows.
OpenRead(f, k, os, can) ==
    IF LookupParent(f, k) = "NotADirectory"
    THEN IF os = "windows" THEN "NotFound" ELSE "NotADirectory"
    ELSE IF LookupParent(f, k) = "NotFound" \/ ~Exists(f, k) THEN "NotFound"
    ELSE IF ~can THEN "PermissionDenied"
    ELSE IF IsDirKey(f, k) /\ os = "windows" THEN "PermissionDenied"
    ELSE "ok"

\* Read::read_to_end on a handle opened on k: read(2) on a directory is EISDIR.
ReadToEnd(f, k) ==
    IF IsDirKey(f, k) THEN [err |-> "IsADirectory", data |-> <<>>]
    ELSE [err |-> "ok", data |-> f[k].data]

\* FileReadError::other
FileReadError_other(e) == [type |-> "FileReadError", variant |-> "Other", inner |-> e]

\* FileReadError::convert: is_is_a_directory is the kind's Debug name off
\* Windows, and PermissionDenied on a directory on Windows.
FileReadError_convert(f, e, path, os) ==
    LET is_is_a_directory ==
            IF os = "windows" THEN e.kind = "PermissionDenied" /\ is_dir(f, path)
            ELSE e.kind = "IsADirectory"
    IN  IF is_is_a_directory
        THEN [type |-> "FileReadError", variant |-> "IsADirectory", path |-> path]
        ELSE IF e.kind = "NotFound"
        THEN [type |-> "FileReadError", variant |-> "NotFound", path |-> path]
        ELSE FileReadError_other(e)

\* FileReadError::kind
FileReadError_kind(e) ==
    IF e.variant = "IsADirectory" THEN "IsADirectory"
    ELSE IF e.variant = "NotFound" THEN "NotFound"
    ELSE "Other"

FileReadError_is_is_a_directory(e) == FileReadError_kind(e) = "IsADirectory"
FileReadError_is_not_found(e) == FileReadError_kind(e) = "NotFound"
FileReadError_is_other(e) == FileReadError_kind(e) = "Other"

\* std::fs::read(path): open, then read to the end.
fs_read(f, path, os, can) ==
    LET k == Resolve(path)
        o == OpenRead(f, k, os, can)
        r == ReadToEnd(f, k)
    IN  IF o # "ok" THEN Err(IOError(o))
        ELSE IF r.err # "ok" THEN Err(IOError(r.err))
        ELSE Ok(r.data)

\* std::fs::read_to_string(path): as read, then the bytes must be UTF-8.
fs_read_to_string(f, path, os, can) ==
    LET r == fs_read(f, path, os, can)
    IN  IF r.ok /\ ~Utf8Valid(r.val) THEN Err(IOError("InvalidData")) ELSE r

\* read_to_string(path).map_err(|e| FileReadError::convert(e, path))
read_text_file(f, path, os, can) ==
    LET r == fs_read_to_string(f, path, os, can)
    IN  IF r.ok THEN r ELSE Err(FileReadError_convert(f, r.err, path, os))

\* read(path).map_err(|e| FileReadError::convert(e, path))
read_bytes(f, path, os, can) ==
    LET r == fs_read(f, path, os, can)
    IN  IF r.ok THEN r ELSE Err(FileReadError_convert(f, r.err, path, os))

\* File::open(path).map_err(|e| FileReadError::convert(e, path)): the value is
\* the handle, here the entry it is open on.
open_file(f, path, os, can) ==
    LET k == Resolve(path)
        o == OpenRead(f, k, os, can)
    IN  IF o = "ok" THEN Ok([handle |-> k])
        ELSE Err(FileReadError_convert(f, IOError(o), path, os))

\* The texts the files read hold: a JSON, YAML and TOML-inline object, the
\* malformed text of the tests cut short, an unclosed object, nothing, a number,
\* a TOML key with its value and without it, and bytes that are no UTF-8.
Docs ==
    { <<"{", "}">>, <<"x", "{", "}">>, <<"{">>, <<>>, <<"1">>,
      <<"x", "=", "1">>, <<"x", "=">>, <<BadByte>> }

cG == <<"g">>

\* /d with the file f.e holding one of the texts, or without it.
ReadFileSystems ==
    { Put(RootOnly, <<cD>>, Dir) }
    \cup { Put(Put(RootOnly, <<cD>>, Dir), <<cD, cFE>>, File(doc)) : doc \in Docs }

\* The file, the directory, a missing name and a name below the file.
ReadPaths ==
    { AbsPath(<<cD, cFE>>), AbsPath(<<cD>>), AbsPath(<<cD, cG>>), AbsPath(<<cD, cFE, cX>>) }

\* The targets the library is built for: cfg(windows) or not.
Platforms == {"unix", "windows"}

Readers == {"read_text_file", "read_bytes", "open_file"}

InitRead == fs \in ReadFileSystems /\ InitRest

\* read_text_file(path), read_bytes(path) or open_file(path) is called.
CallRead(p) ==
    /\ Begin(p, "rd_run")
    /\ \E op \in Readers, path \in ReadPaths, os \in Platforms :
         call' = [call EXCEPT ![p] = [op |-> op, path |-> path, os |-> os]]
    /\ UNCHANGED <<fs, now, cwd, backup_path, result, won, lost, find, guards>>

\* The reader runs and returns.
RdRun(p) ==
    /\ pc[p] = "rd_run"
    /\ \E can \in BOOLEAN :
         result' = [result EXCEPT ![p] =
            IF call[p].op = "read_text_file"
            THEN read_text_file(fs, call[p].path, call[p].os, can)
            ELSE IF call[p].op = "read_bytes"
            THEN read_bytes(fs, call[p].path, call[p].os, can)
            ELSE open_file(fs, call[p].path, call[p].os, can)]
    /\ pc' = [pc EXCEPT ![p] = "returned"]
    /\ UNCHANGED <<fs, now, cwd, call, backup_path, pre, won, lost, calls, find, guards>>

-----------------------------------------------------------------------------
(* The format readers (formats/json.rs, formats/yaml.rs, formats/toml.rs) *)

\* The types T a document is deserialized into: any value, a table, a number.
Types == {"Value", "Table", "Number"}

\* Whether a parsed document of the shape deserializes into T.
Fits(shape, ty) ==
    \/ ty = "Value"
    \/ shape = "object" /\ ty = "Table"
    \/ shape = "number" /\ ty = "Number"

\* A serde_json::Error: its category (classify) and its message (to_string).
SerdeJsonError(category, message) ==
    [ok |-> FALSE, type |-> "serde_json::Error", category |-> category, message |-> message]

\* serde_json::from_str::<T>(s) on the texts of Docs: an object {} or a number.
serde_json_from_str(s, ty) ==
    IF s = <<>> THEN SerdeJsonError("Eof", "EOF while parsing a value")
    ELSE IF s[1] = "{"
    THEN IF Len(s) = 1 THEN SerdeJsonError("Eof", "EOF while parsing an object")
         ELSE IF s[2] # "}" THEN SerdeJsonError("Syntax", "key must be a string")
         ELSE IF Len(s) > 2 THEN SerdeJsonError("Syntax", "trailing characters")
         ELSE IF Fits("object", ty) THEN Ok("object")
         ELSE SerdeJsonError("Data", "invalid type: map")
    ELSE IF s[1] = "1"
    THEN IF Len(s) > 1 THEN SerdeJsonError("Syntax", "trailing characters")
         ELSE IF Fits("number", ty) THEN Ok("number")
         ELSE SerdeJsonError("Data", "invalid type: integer")
    ELSE SerdeJsonError("Syntax", "expected value")

\* A serde_yaml::Error: its message and its location, if it has one.
SerdeYamlError(message, location) ==
    [ok |-> FALSE, type |-> "serde_yaml::Error", message |-> message, location |-> location]

\* serde_yaml::from_str::<T>(s) on the texts of Docs: a flow mapping {}, a
\* number, the empty document (null), or a plain scalar (a string).
serde_yaml_from_str(s, ty) ==
    LET shape == IF s = <<>> THEN "null"
                 ELSE IF s = <<"{", "}">> THEN "object"
                 ELSE IF s = <<"1">> THEN "number"
                 ELSE "string"
    IN  IF s # <<>> /\ s[1] = "{" /\ shape # "object"
        THEN SerdeYamlError("did not find expected node content", Some(Len(s)))
        ELSE IF Fits(shape, ty) THEN Ok(shape)
        ELSE SerdeYamlError("invalid type", IF shape = "null" THEN None ELSE Some(0))

\* A toml::de::Error or toml_edit::TomlError: its message and its span, if known.
TomlDeError(message, span) ==
    [ok |-> FALSE, type |-> "toml::de::Error", message |-> message, span |-> span]

Range(start, end) == [start |-> start, end |-> end]

\* The TOML document grammar on the texts of Docs: nothing, or key = value with
\* a bare key and the value 1.
toml_parse(s) ==
    IF s = <<>> THEN Ok("object")
    ELSE IF s[1] \notin {"x", "1"} THEN TomlDeError("invalid key", Some(Range(0, 1)))
    ELSE IF Len(s) = 1 THEN TomlDeError("expected equals sign", Some(Range(1, 1)))
    ELSE IF s[2] # "=" THEN TomlDeError("expected equals sign", Some(Range(1, 2)))
    ELSE IF Len(s) = 2 THEN TomlDeError("invalid string", Some(Range(2, 2)))
    ELSE IF s[3] # "1" THEN TomlDeError("invalid string", Some(Range(2, 3)))
    ELSE IF Len(s) > 3 THEN TomlDeError("expected newline", Some(Range(3, 4)))
    ELSE Ok("object")

\* toml::from_str::<T>(s): a document is a table; deserializing it into another
\* type fails without a span.
toml_from_str(s, ty) ==
    LET d == toml_parse(s)
    IN  IF ~d.ok THEN d
        ELSE IF Fits(d.val, ty) THEN d
        ELSE TomlDeError("invalid type: map", None)

\* The pieces a displayed message is put together from.
Lit(s) == [lit |-> s]
Num(n) == [num |-> n]
Shown(path) == [path |-> path]

\* Display of an std::io::Error: the description of its kind.
IOError_display(e) == << Lit(e.kind) >>

\* JsonError::other
JsonError_other(e) == [type |-> "JsonError", variant |-> "Other", inner |-> e]

\* JsonError_convert filing every parser error under Other.
JsonError_convert_AsOther(e, path) == JsonError_other(e)

\* JsonError::convert
JsonError_convert(e, path) ==
    [type |-> "JsonError",
     variant |-> IF e.category = "Data" THEN "Data"
                 ELSE IF e.category = "Eof" THEN "Eof"
                 ELSE IF e.category = "Io" THEN "Io"
                 ELSE "Syntax",
     message |-> e.message, path |-> path]

\* JsonError::kind
JsonError_kind(e) ==
    IF e.variant = "Data" THEN "Data"
    ELSE IF e.variant = "Eof" THEN "Eof"
    ELSE IF e.variant = "Io" THEN "Io"
    ELSE IF e.variant = "Syntax" THEN "Syntax"
    ELSE "Other"

JsonError_is_data(e) == JsonError_kind(e) = "Data"
JsonError_is_eof(e) == JsonError_kind(e) = "Eof"
\* JsonError_is_io comparing the kind with Data.
JsonError_is_io_AsData(e) == JsonError_kind(e) = "Data"

JsonError_is_io(e) == JsonError_kind(e) = "Io"
JsonError_is_syntax(e) == JsonError_kind(e) = "Syntax"
JsonError_is_other(e) == JsonError_kind(e) = "Other"

\* YamlError::other
YamlError_other(e) == [type |-> "YamlError", variant |-> "Other", inner |-> e]

\* YamlError_convert reporting a type mismatch as Other.
YamlError_convert_MismatchAsOther(e, path) ==
    IF e.message = "invalid type" THEN YamlError_other(e)
    ELSE [type |-> "YamlError", variant |-> "Syntax", message |-> e.message,
          location |-> e.location, path |-> path]

\* YamlError::convert
YamlError_convert(e, path) ==
    [type |-> "YamlError", variant |-> "Syntax", message |-> e.message,
     location |-> e.location, path |-> path]

\* YamlError::kind
YamlError_kind(e) == IF e.variant = "Syntax" THEN "Syntax" ELSE "Other"

YamlError_is_syntax(e) == YamlError_kind(e) = "Syntax"
YamlError_is_other(e) == YamlError_kind(e) = "Other"

\* TomlError::other
TomlError_other(e) == [type |-> "TomlError", variant |-> "Other", inner |-> e]

\* TomlError::convert: the message is formatted with the span, when known, and
\* the path.
TomlError_convert(e, path) ==
    [type |-> "TomlError", variant |-> "Syntax",
     message |-> IF ~e.span.none
                 THEN << Lit(e.message), Lit(" at span "), Num(e.span.val.start), Lit(":"),
                         Num(e.span.val.end), Lit(" in "), Shown(path) >>
                 ELSE << Lit(e.message), Lit(" in "), Shown(path) >>,
     path |-> path, span |-> e.span]

\* TomlError::convert_edit
TomlError_convert_edit(e, path) ==
    [type |-> "TomlError", variant |-> "Syntax",
     message |-> IF ~e.span.none
                 THEN << Lit(e.message), Lit(" at span "), Num(e.span.val.start), Lit(":"),
                         Num(e.span.val.end), Lit(" in "), Shown(path) >>
                 ELSE << Lit(e.message), Lit(" in "), Shown(path) >>,
     path |-> path, span |-> e.span]

\* TomlError::kind
TomlError_kind(e) == IF e.variant = "Syntax" THEN "Syntax" ELSE "Other"

TomlError_is_syntax(e) == TomlError_kind(e) = "Syntax"
TomlError_is_other(e) == TomlError_kind(e) = "Other"

\* anyhow::Error::downcast_ref::<E>: the cause, when its concrete type is E.
AnyhowError_downcast_ref(E, inner) == IF inner.type = E THEN Some(inner) ELSE None

\* Display of FileReadErrorImpl; Other is transparent: the cause's own message.
FileReadError_display(e) ==
    IF e.variant = "IsADirectory"
    THEN << Lit("File system object "), Shown(e.path), Lit(" is a directory not a file") >>
    ELSE IF e.variant = "NotFound"
    THEN << Lit("File "), Shown(e.path), Lit(" not found") >>
    ELSE IOError_display(e.inner)

\* Display of FileWriteErrorImpl
FileWriteError_display(e) ==
    IF e.variant = "AlreadyExists"
    THEN << Lit("File "), Shown(e.path), Lit(" already exists") >>
    ELSE IOError_display(e.inner)

\* Display of the cause an anyhow::Error wraps.
AnyhowError_display(inner) ==
    IF inner.type = "FileReadError" THEN FileReadError_display(inner)
    ELSE IOError_display(inner)

\* Display of JsonErrorImpl: "{message} in {path}", Other transparent.
JsonError_display(e) ==
    IF e.variant = "Other" THEN AnyhowError_display(e.inner)
    ELSE << Lit(e.message), Lit(" in "), Shown(e.path) >>

\* Display of YamlErrorImpl: "{message} in {path}", Other transparent.
YamlError_display(e) ==
    IF e.variant = "Other" THEN AnyhowError_display(e.inner)
    ELSE << Lit(e.message), Lit(" in "), Shown(e.path) >>

\* Display of TomlErrorImpl: "{message}", Other transparent.
TomlError_display(e) ==
    IF e.variant = "Other" THEN AnyhowError_display(e.inner)
    ELSE e.message

\* HasOtherError for FileReadError
FileReadError_downcast_other_ref(E, e) ==
    IF e.variant = "Other" THEN AnyhowError_downcast_ref(E, e.inner) ELSE None

\* HasOtherError for FileWriteError
FileWriteError_downcast_other_ref(E, e) ==
    IF e.variant = "Other" THEN AnyhowError_downcast_ref(E, e.inner) ELSE None

\* HasOtherError for JsonError
JsonError_downcast_other_ref(E, e) ==
    IF e.variant = "Other" THEN AnyhowError_downcast_ref(E, e.inner) ELSE None

\* YamlError_downcast_other_ref handing out the cause whatever its type.
YamlError_downcast_other_ref_AnyType(E, e) ==
    IF e.variant = "Other" THEN Some(e.inner) ELSE None

\* HasOtherError for YamlError
YamlError_downcast_other_ref(E, e) ==
    IF e.variant = "Other" THEN AnyhowError_downcast_ref(E, e.inner) ELSE None

\* HasOtherError for TomlError
TomlError_downcast_other_ref(E, e) ==
    IF e.variant = "Other" THEN AnyhowError_downcast_ref(E, e.inner) ELSE None

FormatReaders == {"read_json_file", "read_yaml_file", "read_toml_file", "read_toml_file_edit"}

\* The error type an operation returns.
ErrorType(op) ==
    IF op \in Readers THEN "FileReadError"
    ELSE IF op = "read_json_file" THEN "JsonError"
    ELSE IF op = "read_yaml_file" THEN "YamlError"
    ELSE IF op \in {"read_toml_file", "read_toml_file_edit"} THEN "TomlError"
    ELSE "FileWriteError"

\* kind(), Display and downcast_other_ref::<E>() of an error of the given type.
kind(ty, e) ==
    IF ty = "FileReadError" THEN FileReadError_kind(e)
    ELSE IF ty = "JsonError" THEN JsonError_kind(e)
    ELSE IF ty = "YamlError" THEN YamlError_kind(e)
    ELSE IF ty = "TomlError" THEN TomlError_kind(e)
    ELSE FileWriteError_kind(e)

display(ty, e) ==
    IF ty = "FileReadError" THEN FileReadError_display(e)
    ELSE IF ty = "JsonError" THEN JsonError_display(e)
    ELSE IF ty = "YamlError" THEN YamlError_display(e)
    ELSE IF ty = "TomlError" THEN TomlError_display(e)
    ELSE FileWriteError_display(e)

downcast_other_ref(ty, E, e) ==
    IF ty = "FileReadError" THEN FileReadError_downcast_other_ref(E, e)
    ELSE IF ty = "JsonError" THEN JsonError_downcast_other_ref(E, e)
    ELSE IF ty = "YamlError" THEN YamlError_downcast_other_ref(E, e)
    ELSE IF ty = "TomlError" THEN TomlError_downcast_other_ref(E, e)
    ELSE FileWriteError_downcast_other_ref(E, e)

\* The types a caller asks downcast_other_ref for.
CauseTypes == {"io::Error", "FileReadError", "serde_json::Error"}

\* read_json_file::<T>(path), read_yaml_file::<T>(path), read_toml_file::<T>(path)
\* or read_toml_file_edit(path) is called.
CallFormat(p) ==
    /\ Begin(p, "fmt_read")
    /\ \E op \in FormatReaders, path \in ReadPaths, os \in Platforms, ty \in Types :
         call' = [call EXCEPT ![p] = [op |-> op, path |-> path, os |-> os, ty |-> ty,
                                      s |-> <<>>, read |-> FALSE]]
    /\ UNCHANGED <<fs, now, cwd, backup_path, result, won, lost, find, guards>>

\* format_other wrapping an io::Error of the reader's kind, not the reader's error.
format_other_Unwrapped(op, e) ==
    IF op = "read_json_file" THEN JsonError_other(IOError(FileReadError_kind(e)))
    ELSE IF op = "read_yaml_file" THEN YamlError_other(IOError(FileReadError_kind(e)))
    ELSE TomlError_other(IOError(FileReadError_kind(e)))

\* The error a failed read_text_file is mapped to: <Format>Error::other
format_other(op, e) ==
    IF op = "read_json_file" THEN JsonError_other(e)
    ELSE IF op = "read_yaml_file" THEN YamlError_other(e)
    ELSE TomlError_other(e)

\* let s = read_text_file(path).map_err(<Format>Error::other)?; read remembers
\* that the text was read.
FmtRead(p) ==
    /\ pc[p] = "fmt_read"
    /\ \E can \in BOOLEAN :
         LET r == read_text_file(fs, call[p].path, call[p].os, can)
         IN  IF r.ok
             THEN /\ call' = [call EXCEPT ![p].s = r.val, ![p].read = TRUE]
                  /\ pc' = [pc EXCEPT ![p] = "fmt_parse"]
                  /\ UNCHANGED result
             ELSE /\ result' = [result EXCEPT ![p] = Err(format_other(call[p].op, r.err))]
                  /\ pc' = [pc EXCEPT ![p] = "returned"]
                  /\ UNCHANGED call
    /\ UNCHANGED <<fs, now, cwd, backup_path, pre, won, lost, calls, find, guards>>

\* The parse of the text read, its error mapped by convert / convert_edit.
format_parse(op, s, ty, path) ==
    IF op = "read_json_file"
    THEN LET v == serde_json_from_str(s, ty)
         IN  IF v.ok THEN v ELSE Err(JsonError_convert(v, path))
    ELSE IF op = "read_yaml_file"
    THEN LET v == serde_yaml_from_str(s, ty)
         IN  IF v.ok THEN v ELSE Err(YamlError_convert(v, path))
    ELSE IF op = "read_toml_file"
    THEN LET v == toml_from_str(s, ty)
         IN  IF v.ok THEN v ELSE Err(TomlError_convert(v, path))
    ELSE LET v == toml_parse(s)
         IN  IF v.ok THEN v ELSE Err(TomlError_convert_edit(v, path))

\* let value = from_str::<T>(&s).map_err(|e| convert(&e, path))?; Ok(value)
FmtParse(p) ==
    /\ pc[p] = "fmt_parse"
    /\ result' = [result EXCEPT ![p] =
          format_parse(call[p].op, call[p].s, call[p].ty, call[p].path)]
    /\ pc' = [pc EXCEPT ![p] = "returned"]
    /\ UNCHANGED <<fs, now, cwd, call, backup_path, pre, won, lost, calls, find, guards>>

\* The caller that got an error formats it and asks it for a cause of type E.
ErrInspect(p) ==
    /\ pc[p] = "returned"
    /\ ~result[p].ok
    /\ "asked" \notin DOMAIN call[p]
    /\ \E E \in CauseTypes :
         LET ty == ErrorType(call[p].op)
         IN  call' = [call EXCEPT ![p] =
                 [x \in DOMAIN @ \cup {"asked", "answer", "message"} |->
                     IF x = "asked" THEN E
                     ELSE IF x = "answer" THEN downcast_other_ref(ty, E, result[p].err)
                     ELSE IF x = "message" THEN display(ty, result[p].err)
                     ELSE @[x]]]
    /\ UNCHANGED <<fs, now, cwd, pc, backup_path, result, pre, won, lost, calls, find, guards>>

\* The paths safe_create_file is called with beside the readers.
ErrWritePaths == { AbsPath(<<cD, cFE>>), AbsPath(<<cD, cFE, cX>>) }

\* One caller of the readers, of the format readers and of safe_create_file.
NextRead ==
    \/ CallRead("a")
    \/ RdRun("a")
    \/ CallFormat("a")
    \/ FmtRead("a")
    \/ FmtParse("a")
    \/ CallSafeCreateFile("a", ErrWritePaths, {<<>>})
    \/ CfEnsureDir("a")
    \/ CfOpen("a")
    \/ ErrInspect("a")
    \/ Return("a")

SpecRead == InitRead /\ [][NextRead]_vars

-----------------------------------------------------------------------------
(* The working-directory guard (fs/working_dir.rs) *)

\* The directory a path names for a process whose working directory is at.
ResolveAt(at, path) == IF path.abs THEN path.comps ELSE at \o path.comps

\* set_current_dir reporting success and leaving the working directory alone.
set_current_dir_Stay(f, at, path, can) == [err |-> "ok", cwd |-> at]

\* std::env::set_current_dir(path), chdir(2), by a process whose working
\* directory is at: the error, or "ok" and the new working directory.
set_current_dir(f, at, path, can) ==
    LET k == ResolveAt(at, path)
    IN  IF LookupParent(f, k) # "ok" THEN [err |-> LookupParent(f, k), cwd |-> at]
        ELSE IF ~Exists(f, k) THEN [err |-> "NotFound", cwd |-> at]
        ELSE IF ~IsDirKey(f, k) THEN [err |-> "NotADirectory", cwd |-> at]
        ELSE IF ~can THEN [err |-> "PermissionDenied", cwd |-> at]
        ELSE [err |-> "ok", cwd |-> k]

\* std::env::current_dir(), getcwd(3): canread is FALSE when the system cannot
\* name the working directory.
current_dir(at, canread) ==
    IF canread THEN Ok(AbsPath(at)) ELSE Err(IOError("NotFound"))

\* WorkingDirectory_change saving the directory it enters.
WorkingDirectory_change_SaveTarget(f, at, dir, canread, can) ==
    LET saved_dir == current_dir(at, canread)
        o == set_current_dir(f, at, dir, can)
    IN  IF ~saved_dir.ok THEN [res |-> saved_dir, cwd |-> at]
        ELSE IF o.err # "ok" THEN [res |-> Err(IOError(o.err)), cwd |-> at]
        ELSE [res |-> Ok([saved_dir |-> Some(AbsPath(o.cwd))]), cwd |-> o.cwd]

\* WorkingDirectory::change(dir): the result and the working directory after it.
WorkingDirectory_change(f, at, dir, canread, can) ==
    LET saved_dir == current_dir(at, canread)
        o == set_current_dir(f, at, dir, can)
    IN  IF ~saved_dir.ok THEN [res |-> saved_dir, cwd |-> at]
        ELSE IF o.err # "ok" THEN [res |-> Err(IOError(o.err)), cwd |-> at]
        ELSE [res |-> Ok([saved_dir |-> Some(saved_dir.val)]), cwd |-> o.cwd]

\* WorkingDirectory_close leaving saved_dir as it is after the restore.
WorkingDirectory_close_KeepSaved(f, at, saved_dir, can) ==
    IF saved_dir.none THEN [res |-> Ok(Unit), cwd |-> at, saved_dir |-> saved_dir]
    ELSE LET o == set_current_dir(f, at, saved_dir.val, can)
         IN  IF o.err # "ok"
             THEN [res |-> Err(IOError(o.err)), cwd |-> at, saved_dir |-> saved_dir]
             ELSE [res |-> Ok(Unit), cwd |-> o.cwd, saved_dir |-> saved_dir]

\* WorkingDirectory_close clearing saved_dir when the restore fails too.
WorkingDirectory_close_ClearOnError(f, at, saved_dir, can) ==
    IF saved_dir.none THEN [res |-> Ok(Unit), cwd |-> at, saved_dir |-> saved_dir]
    ELSE LET o == set_current_dir(f, at, saved_dir.val, can)
         IN  IF o.err # "ok"
             THEN [res |-> Err(IOError(o.err)), cwd |-> at, saved_dir |-> None]
             ELSE [res |-> Ok(Unit), cwd |-> o.cwd, saved_dir |-> None]

\* WorkingDirectory::close(&mut self): the result, the working directory and
\* self.saved_dir after it.
WorkingDirectory_close(f, at, saved_dir, can) ==
    IF saved_dir.none THEN [res |-> Ok(Unit), cwd |-> at, saved_dir |-> saved_dir]
    ELSE LET o == set_current_dir(f, at, saved_dir.val, can)
         IN  IF o.err # "ok"
             THEN [res |-> Err(IOError(o.err)), cwd |-> at, saved_dir |-> saved_dir]
             ELSE [res |-> Ok(Unit), cwd |-> o.cwd, saved_dir |-> None]

\* /d, /d/s and the regular file /d/f.e
GuardFileSystem ==
    Put(Put(Put(RootOnly, <<cD>>, Dir), <<cD, cS>>, Dir), <<cD, cFE>>, File(<<1, 1>>))

\* The dir argument of change: two directories, a directory relative to the
\* working directory, a regular file and a missing name.
GuardDirs ==
    { AbsPath(<<cD>>), AbsPath(<<cD, cS>>), RelPath(<<cS>>), AbsPath(<<cD, cFE>>),
      AbsPath(<<cX>>) }

InitGuard == fs = GuardFileSystem /\ InitRest

\* What a step that takes the working directory from `from` to `to` makes of the
\* guards other than g: a guard holding a saved directory is disturbed when the
\* working directory changes under it.
Others(g, from, to, mine) ==
    [h \in Guards |->
        IF h = g THEN mine
        ELSE IF guards[h].state = "live" /\ from # to
        THEN [guards[h] EXCEPT !.disturbed = TRUE]
        ELSE guards[h]]

\* The guards are named in the order of the calls of change: the guards the
\* calls before g's are for.
Before(g) == IF g = "g1" THEN {} ELSE IF g = "g2" THEN {"g1"} ELSE {"g1", "g2"}

\* The guards created and the restorations made so far.
Events ==
    Cardinality({h \in Guards : guards[h].born > 0})
    + Cardinality({h \in Guards : guards[h].died > 0})

\* let guard = WorkingDirectory::change(dir); at, dir, res, restored and
\* disturbed remember the call and what happened to the guard since, born and
\* died the order in which the guards were created and restored their directory.
Change(g) ==
    /\ guards[g].state = "none"
    /\ \A h \in Before(g) : guards[h].state # "none"
    /\ \E dir \in GuardDirs, canread \in BOOLEAN, can \in BOOLEAN :
         LET r == WorkingDirectory_change(fs, cwd, dir, canread, can)
         IN  /\ cwd' = r.cwd
             /\ guards' = Others(g, cwd, r.cwd,
                    IF r.res.ok
                    THEN [state |-> "live", saved_dir |-> r.res.val.saved_dir, at |-> cwd,
                          dir |-> dir, res |-> r.res, restored |-> "no", disturbed |-> FALSE,
                          born |-> Events + 1, died |-> 0]
                    ELSE [state |-> "failed", saved_dir |-> None, at |-> cwd,
                          dir |-> dir, res |-> r.res, restored |-> "no", disturbed |-> FALSE,
                          born |-> 0, died |-> 0])
    /\ UNCHANGED <<fs, now, pc, call, backup_path, result, pre, won, lost, calls, find>>

\* guard.close()
Close(g) ==
    /\ guards[g].state = "live"
    /\ \E can \in BOOLEAN :
         LET r == WorkingDirectory_close(fs, cwd, guards[g].saved_dir, can)
         IN  /\ cwd' = r.cwd
             /\ guards' = Others(g, cwd, r.cwd,
                    [guards[g] EXCEPT !.saved_dir = r.saved_dir, !.res = r.res,
                        !.restored = IF guards[g].saved_dir.none \/ ~r.res.ok THEN @
                                      ELSE "close",
                        !.died = IF guards[g].saved_dir.none \/ ~r.res.ok THEN @
                                  ELSE Events + 1])
    /\ UNCHANGED <<fs, now, pc, call, backup_path, result, pre, won, lost, calls, find>>

\* drop(guard): _ = self.close()
Drop(g) ==
    /\ guards[g].state = "live"
    /\ \E can \in BOOLEAN :
         LET r == WorkingDirectory_close(fs, cwd, guards[g].saved_dir, can)
         IN  /\ cwd' = r.cwd
             /\ guards' = Others(g, cwd, r.cwd,
                    [guards[g] EXCEPT !.state = "dropped", !.saved_dir = r.saved_dir,
                        !.res = r.res,
                        !.restored = IF guards[g].saved_dir.none \/ ~r.res.ok THEN @
                                      ELSE "drop",
                        !.died = IF guards[g].saved_dir.none \/ ~r.res.ok THEN @
                                  ELSE Events + 1])
    /\ UNCHANGED <<fs, now, pc, call, backup_path, result, pre, won, lost, calls, find>>

NextGuard ==
    \/ \E g \in Guards : Change(g)
    \/ \E g \in Guards : Close(g)
    \/ \E g \in Guards : Drop(g)

SpecGuard == InitGuard /\ [][NextGuard]_vars

-----------------------------------------------------------------------------
(* Properties of the backup and of the safe writers *)

\* The io::ErrorKinds with which the system refuses a call whatever the path holds.
SystemRefusals == {"PermissionDenied", "StorageFull"}

Key(p) == Resolve(call[p].path)

BackupDone(p) == pc[p] = "returned" /\ call[p].op = "safe_back_up" /\ result[p].ok

Writer(p) == call[p].op \in {"safe_create_file", "safe_write_file"}

\* C1: a successful safe_back_up(p) of an existing file given by an absolute path
\* returns q # p, q did not exist when it was called, and q holds the bytes p
\* held at the backup.
C1_BackupHoldsSource ==
    \A p \in Procs :
        BackupDone(p) =>
            LET q == result[p].val
            IN  /\ q # call[p].path
                /\ ~Exists(pre[p], Resolve(q))
                /\ IsFileKey(fs, Resolve(q))
                /\ fs[Resolve(q)].data = pre[p][Key(p)].data

C1_Witness ==
    \E p \in Procs : BackupDone(p) /\ pre[p][Key(p)].data # <<>>

\* C2: whatever names the backup loop finds taken, the backup gets a name that is
\* not the source's, not one found taken and not one of a file that existed, and
\* the source and every file that existed keep their content.
C2_CollisionKeepsFiles ==
    \A p \in Procs :
        /\ call[p].op = "safe_back_up" =>
               \A x \in DOMAIN pre[p] : Exists(fs, x) /\ fs[x] = pre[p][x]
        /\ BackupDone(p) =>
               /\ result[p].val # call[p].path
               /\ Resolve(result[p].val) \notin DOMAIN pre[p]
               /\ Resolve(result[p].val) \notin lost[p]

C2_Witness ==
    \E p \in Procs : BackupDone(p) /\ lost[p] # {} /\ Exists(fs, <<cD, TakenName>>)

\* C3: of the callers racing for one name, at most one creates it exclusively;
\* a no-overwrite create that finds it taken returns AlreadyExists, and a backup
\* that finds its candidate taken ends under another name, which it created.
C3_OneWinnerPerName ==
    /\ \A p, q \in Procs : p # q => won[p] \cap won[q] = {}
    /\ \A p \in Procs :
        /\ won[p] \cap lost[p] = {}
        /\ \A k \in won[p] \cup lost[p] : Exists(fs, k)
        /\ (pc[p] = "returned" /\ Writer(p) /\ lost[p] # {}) =>
               /\ ~result[p].ok
               /\ FileWriteError_kind(result[p].err) = "AlreadyExists"
        /\ (call[p].op = "safe_back_up" /\ (pc[p] = "bk_copy" \/ BackupDone(p))) =>
               Resolve(backup_path[p]) \in won[p]

C3_Witness ==
    \E p, q \in Procs :
        /\ p # q
        /\ call[p].op = "safe_back_up"
        /\ BackupDone(q)
        /\ \E k \in lost[q] : k \in won[p] /\ ~Exists(pre[q], k)

\* C4: safe_write_file on an existing file: without overwrite it fails with
\* AlreadyExists and the content stays; with overwrite it fails only when the
\* system refuses the call, and on success the content is exactly the given one.
C4_WriteFileOverExisting ==
    \A p \in Procs :
        (pc[p] = "returned" /\ call[p].op = "safe_write_file" /\ IsFileKey(pre[p], Key(p))) =>
            IF call[p].overwrite
            THEN /\ result[p].ok => fs[Key(p)] = File(call[p].contents)
                 /\ ~result[p].ok =>
                        /\ FileWriteError_kind(result[p].err) = "Other"
                        /\ result[p].err.inner.kind \in SystemRefusals
            ELSE /\ ~result[p].ok
                 /\ FileWriteError_kind(result[p].err) = "AlreadyExists"
                 /\ fs[Key(p)] = pre[p][Key(p)]

C4_Witness ==
    \E p \in Procs :
        /\ pc[p] = "returned" /\ call[p].op = "safe_write_file" /\ call[p].overwrite
        /\ result[p].ok
        /\ IsFileKey(pre[p], Key(p))
        /\ Len(pre[p][Key(p)].data) > Len(call[p].contents)

\* C5: safe_create_file with overwrite on an existing file leaves it empty, and
\* after the caller's write through the handle the content is exactly the bytes
\* written.
C5_OverwriteTruncates ==
    \A p \in Procs :
        (call[p].op = "safe_create_file" /\ call[p].overwrite /\ IsFileKey(pre[p], Key(p))) =>
            /\ (pc[p] = "returned" /\ result[p].ok) => fs[Key(p)] = File(<<>>)
            /\ pc[p] = "written" => fs[Key(p)] = File(call[p].contents)

\* C6: the exclusive create of safe_create_file without overwrite succeeds only
\* if nothing exists at the path at that step; if something exists it fails
\* with AlreadyExists and changes nothing; otherwise it fails only when the
\* system refuses the call.
C6_ExclusiveCreateDecides ==
    [][ \A p \in Procs :
          (pc[p] = "cf_open" /\ pc'[p] # "cf_open" /\ ~call[p].overwrite) =>
              /\ result'[p].ok =>
                     ~Exists(fs, Key(p)) /\ fs' = Put(fs, Key(p), File(<<>>))
              /\ Exists(fs, Key(p)) =>
                     /\ ~result'[p].ok
                     /\ FileWriteError_kind(result'[p].err) = "AlreadyExists"
                     /\ FileWriteError_is_already_exists(result'[p].err)
                     /\ ~FileWriteError_is_other(result'[p].err)
                     /\ fs' = fs
              /\ (~Exists(fs, Key(p)) /\ ~result'[p].ok) =>
                     /\ FileWriteError_kind(result'[p].err) = "Other"
                     /\ result'[p].err.inner.kind \in SystemRefusals
                     /\ fs' = fs ]_vars

C6_Witness ==
    \E p \in Procs :
        /\ pc[p] = "returned" /\ call[p].op = "safe_create_file" /\ ~call[p].overwrite
        /\ ~result[p].ok
        /\ FileWriteError_kind(result[p].err) = "AlreadyExists"
        /\ ~Exists(pre[p], Key(p))

\* The kind of a writer's result: "ok" or the kind of its error.
ResultKind(r) == IF r.ok THEN "ok" ELSE FileWriteError_kind(r.err)

\* safe_create_file(path, overwrite) and then write_all(contents) on the handle,
\* on a system that refuses nothing.
CreateThenWrite(f, path, contents, overwrite) ==
    LET e == ensure_dir(f, path, 2)
        o == safe_create_file_open(e.fs, path, overwrite, TRUE)
    IN  IF ~e.res.ok THEN [kind |-> ResultKind(e.res), fs |-> e.fs]
        ELSE IF o.err # "ok"
        THEN [kind |-> ResultKind(Err(FileWriteError_convert(IOError(o.err), path))),
              fs |-> o.fs]
        ELSE [kind |-> "ok", fs |-> WriteAll(o.fs, Resolve(path), contents, TRUE).fs]

\* A call the system did not refuse.
NotRefused(p) ==
    result[p].ok
    \/ FileWriteError_kind(result[p].err) = "AlreadyExists"
    \/ result[p].err.inner.kind \notin SystemRefusals

\* C7: safe_write_file ends with the result kind and the file system of
\* safe_create_file followed by a write of all the contents.
C7_WriteIsCreateThenWrite ==
    \A p \in Procs :
        (pc[p] = "returned" /\ call[p].op = "safe_write_file" /\ NotRefused(p)) =>
            [kind |-> ResultKind(result[p]), fs |-> fs]
                = CreateThenWrite(pre[p], call[p].path, call[p].contents, call[p].overwrite)

AfterEnsureDir == {"cf_open", "wf_create", "wf_write", "wf_write_all"}

\* C8: the writers go on to the file only with the whole parent chain in place;
\* a failure to create it is returned with kind Other; and a later failure of
\* the create or of the write removes nothing and leaves every directory.
C8_EnsureDirFirst ==
    [][ \A p \in Procs :
          Writer(p) =>
              /\ (pc'[p] \in AfterEnsureDir \cup {"written"}
                    \/ (pc'[p] = "returned" /\ result'[p].ok)) =>
                     LookupParent(fs', Key(p)) = "ok"
              /\ (pc[p] \in {"cf_ensure", "wf_ensure"} /\ pc'[p] = "returned") =>
                     /\ ~result'[p].ok
                     /\ FileWriteError_kind(result'[p].err) = "Other"
              /\ (pc[p] \in AfterEnsureDir /\ pc'[p] = "returned" /\ ~result'[p].ok) =>
                     \A x \in DOMAIN fs :
                         /\ Exists(fs', x)
                         /\ fs[x].kind = "dir" => fs'[x] = fs[x] ]_vars

C8_Witness ==
    \E p \in Procs :
        /\ pc[p] = "returned" /\ Writer(p) /\ ~result[p].ok
        /\ LookupParent(fs, Key(p)) = "ok"
        /\ Cardinality({x \in DOMAIN fs \ DOMAIN pre[p] : fs[x].kind = "dir"}) = 2

-----------------------------------------------------------------------------
(* Properties of the sentinel search *)

FindDone == find.pc = "done"

FoundAt(h) == find.result = Some(join(Ancestor(find.start, h), find.name))

Hops == SentinelHops(fs, find.kind, find.name, find.start)

\* C9: with limit 3 a sentinel whose nearest occurrence is 2 hops above the start
\* is returned, and None is returned when the nearest is 4 hops above or there
\* is none.
C9_LimitThree ==
    (FindDone /\ find.limit = Some(3)) =>
        /\ (Hops # {} /\ Min(Hops) = 2) => FoundAt(2)
        /\ (Hops = {} \/ Min(Hops) = 4) => find.result = None

C9_Witness ==
    FindDone /\ find.limit = Some(3) /\ Hops # {} /\ Min(Hops) = 2 /\ FoundAt(2)

\* C10 as claimed: with limit l >= 0 the nearest sentinel is found at every
\* h <= l hops, and not at l + 1 hops.
C10_UpToLimitInclusive ==
    (FindDone /\ ~find.limit.none /\ find.limit.val >= 0 /\ Hops # {}) =>
        /\ Min(Hops) <= find.limit.val => FoundAt(Min(Hops))
        /\ Min(Hops) = find.limit.val + 1 => find.result = None

\* C10 as amended: with limit l >= 0 the nearest sentinel is found exactly when it
\* is h < l hops above the start; at l hops or more, or with none, None is returned.
C10_BelowLimit ==
    (FindDone /\ ~find.limit.none /\ find.limit.val >= 0) =>
        /\ (Hops # {} /\ Min(Hops) < find.limit.val) => FoundAt(Min(Hops))
        /\ (Hops = {} \/ Min(Hops) >= find.limit.val) => find.result = None

C10_Witness ==
    /\ FindDone /\ ~find.limit.none /\ find.limit.val >= 2
    /\ Hops # {} /\ Min(Hops) = find.limit.val - 1
    /\ FoundAt(Min(Hops))

\* The paths a search from start may hand to is_dir / is_file: the sentinel name
\* joined to start or to one of its ancestors.
ChainPaths(start, name) == { join(Ancestor(start, h), name) : h \in 0..Len(start.comps) }

\* C11: a search that returns Some(r) returns the sentinel path of the nearest
\* directory among start_dir and its ancestors that holds the sentinel of the
\* wanted kind, and a search never inspects a path outside start_dir's ancestor
\* chain.
C11_NearestOnChain ==
    /\ (FindDone /\ ~find.result.none) => (Hops # {} /\ FoundAt(Min(Hops)))
    /\ find.inspected \subseteq ChainPaths(find.start, find.name)

\* A sentinel lies beside the chain and two hops above the start; the search
\* returned the latter after inspecting three paths.
C11_Witness ==
    /\ FindDone /\ FoundAt(2) /\ Min(Hops) = 2
    /\ Exists(fs, Append(SideDir, cSentinel))
    /\ Cardinality(find.inspected) = 3

\* C12: a search leaves the file system as it was when the search was called,
\* and a second call with the same arguments on the same tree returns what the
\* first call returned.
C12_PureAndRepeatable ==
    /\ find.pc # "idle" => fs = find.tree
    /\ (FindDone /\ ~find.last.none) => find.result = find.last.val

\* The second of two equal calls has returned a sentinel found above the start.
C12_Witness ==
    /\ FindDone /\ ~find.last.none /\ ~find.result.none
    /\ Cardinality(find.inspected) >= 2
    /\ fs = find.tree

-----------------------------------------------------------------------------
(* Properties of the readers and of the error values *)

ReadDone(p) == pc[p] = "returned" /\ call[p].op \in Readers

\* The call was not refused by the system for a reason outside the path's state.
ReadNotRefused(p) ==
    ~(~result[p].ok /\ result[p].err.variant = "Other"
        /\ result[p].err.inner.kind \in SystemRefusals)

\* The path does not exist: its directory can be searched and has no such entry.
\* (A path below a regular file is another I/O failure, ENOTDIR.)
Missing(f, k) == ~Exists(f, k) /\ LookupParent(f, k) # "NotADirectory"

\* C13: read_text_file, read_bytes and open_file fail with NotFound when the
\* path does not exist, with IsADirectory when it is a directory and with Other
\* on every other failure; on success they give the whole content; the file
\* system is unchanged.
C13_ReadClassification ==
    \A p \in Procs : (ReadDone(p) /\ ReadNotRefused(p)) =>
        LET k == Key(p)
            r == result[p]
        IN  /\ fs = pre[p]
            /\ ~Exists(fs, k) => ~r.ok
            /\ Missing(fs, k) => FileReadError_kind(r.err) = "NotFound"
            /\ IsDirKey(fs, k) => (~r.ok /\ FileReadError_kind(r.err) = "IsADirectory")
            /\ (IsFileKey(fs, k) /\ ~r.ok) => FileReadError_kind(r.err) = "Other"
            /\ (IsFileKey(fs, k) /\ r.ok) =>
                  IF call[p].op = "open_file" THEN ReadToEnd(fs, r.val.handle).data = fs[k].data
                  ELSE r.val = fs[k].data

\* The caller has formatted the error it got and asked it for a cause.
Inspected(p) == pc[p] = "returned" /\ ~result[p].ok /\ "asked" \in DOMAIN call[p]

\* C14: for every error type downcast_other_ref::<E>() gives the cause exactly
\* when the error's kind is Other and the wrapped cause is of type E, and
\* nothing otherwise.
C14_DowncastOnlyOther ==
    \A p \in Procs : Inspected(p) =>
        LET ty == ErrorType(call[p].op)
            e  == result[p].err
        IN  /\ ~call[p].answer.none <=>
                  (kind(ty, e) = "Other" /\ e.inner.type = call[p].asked)
            /\ ~call[p].answer.none => call[p].answer.val = e.inner

\* A YAML error of kind Other gave its FileReadError cause.
C14_Witness ==
    \E p \in Procs :
        /\ Inspected(p) /\ call[p].op = "read_yaml_file"
        /\ call[p].asked = "FileReadError" /\ ~call[p].answer.none
        /\ YamlError_is_other(result[p].err)

FormatDone(p) == pc[p] = "returned" /\ call[p].op \in FormatReaders

\* C15: a format reader called on a file that does not exist fails with kind
\* Other, and downcast_other_ref::<FileReadError>() gives a cause that
\* is_not_found; whenever the read fails the cause is the error read_text_file
\* returns for that path.
C15_MissingFileCause ==
    \A p \in Procs : (FormatDone(p) /\ ~result[p].ok) =>
        LET ty == ErrorType(call[p].op)
            e  == result[p].err
            c  == downcast_other_ref(ty, "FileReadError", e)
        IN  /\ Missing(fs, Key(p)) =>
                  (kind(ty, e) = "Other" /\ ~c.none /\ FileReadError_is_not_found(c.val))
            /\ kind(ty, e) = "Other" =>
                  (~c.none /\ \E can \in BOOLEAN :
                      Err(c.val) = read_text_file(fs, call[p].path, call[p].os, can))

\* read_toml_file_edit on a missing file: the caller got the not-found cause.
C15_Witness ==
    \E p \in Procs :
        /\ Inspected(p) /\ call[p].op = "read_toml_file_edit" /\ Missing(fs, Key(p))
        /\ call[p].asked = "FileReadError" /\ ~call[p].answer.none
        /\ FileReadError_is_not_found(call[p].answer.val)
        /\ TomlError_is_other(result[p].err)

\* The text of the tests' malformed file, cut short: xxx{"message": ...}
Malformed == <<"x", "{", "}">>

\* C16: when the file was read and the parser failed, the error's kind is a
\* parse kind and never Other; for JSON it is the parser's category; the
\* malformed JSON text gives Syntax, and no other is_<kind> holds of it.
C16_ParseFailureKind ==
    \A p \in Procs : (FormatDone(p) /\ call[p].read /\ ~result[p].ok) =>
        LET e == result[p].err
            k == kind(ErrorType(call[p].op), e)
        IN  /\ k # "Other"
            /\ call[p].op = "read_json_file" =>
                  /\ k = serde_json_from_str(call[p].s, call[p].ty).category
                  /\ k \in {"Data", "Eof", "Io", "Syntax"}
            /\ call[p].op # "read_json_file" => k = "Syntax"
            /\ (call[p].op = "read_json_file" /\ call[p].s = Malformed) =>
                  /\ JsonError_is_syntax(e)
                  /\ ~JsonError_is_data(e) /\ ~JsonError_is_eof(e)
                  /\ ~JsonError_is_io(e) /\ ~JsonError_is_other(e)

\* The malformed text was read as JSON and the reader returned a Syntax error.
C16_Witness ==
    \E p \in Procs :
        /\ FormatDone(p) /\ call[p].read /\ ~result[p].ok
        /\ call[p].op = "read_json_file" /\ call[p].s = Malformed
        /\ JsonError_is_syntax(result[p].err)

\* The displayed message m holds the piece.
Contains(m, piece) == \E i \in 1..Len(m) : m[i] = piece

\* The displayed message m holds the span start:end.
ContainsSpan(m, span) ==
    \E i \in 1..(Len(m) - 2) :
        m[i] = Num(span.start) /\ m[i + 1] = Lit(":") /\ m[i + 2] = Num(span.end)

\* C17: the displayed message of every error value, of every kind, holds the
\* path the operation was given, and that of a TOML parse error with a known
\* span holds the span too.
C17_MessageNamesPath ==
    \A p \in Procs : Inspected(p) =>
        LET e == result[p].err
        IN  /\ Contains(call[p].message, Shown(call[p].path))
            /\ (ErrorType(call[p].op) = "TomlError" /\ TomlError_is_syntax(e) /\ ~e.span.none) =>
                  ContainsSpan(call[p].message, e.span.val)

-----------------------------------------------------------------------------
(* Properties of the backup's assertion and retry loop *)

\* C18: safe_back_up with a path that is not absolute or is not an existing
\* regular file ends in the assertion's panic: the file system is as it was at
\* the call, no backup exists and no Ok or Err is returned.
C18_AssertionBeforeChange ==
    \A p \in Procs :
        (/\ call[p].op = "safe_back_up"
         /\ pc[p] \notin {"idle", "bk_assert"}
         /\ ~(is_absolute(call[p].path) /\ is_file(pre[p], call[p].path))) =>
            /\ pc[p] = "panicked"
            /\ fs = pre[p]
            /\ result[p] = NoResult
            /\ won[p] = {}

\* A relative path to an existing regular file made safe_back_up panic.
C18_Witness ==
    \E p \in Procs :
        /\ call[p].op = "safe_back_up" /\ pc[p] = "panicked"
        /\ ~is_absolute(call[p].path) /\ is_file(fs, call[p].path)

\* The caller is in the retry loop.
InLoop(p) == pc[p] = "bk_open"

\* One step of the caller in the loop, as the claim has it: after a collision the
\* candidate is the name of the current instant and the loop goes on; the loop is
\* left with the candidate created exclusively, or with an error that is no
\* collision.
LoopStep(p) ==
    (InLoop(p) /\ <<pc[p], backup_path[p], fs, result[p], lost[p]>>
                    # <<pc'[p], backup_path'[p], fs', result'[p], lost'[p]>>) =>
        LET k == Resolve(backup_path[p])
        IN  \/ /\ Exists(fs, k) /\ fs' = fs /\ InLoop(p)'
               /\ backup_path'[p] = generate_backup_path(call[p].path, DateTimeAt(now))
            \/ /\ ~Exists(fs, k) /\ IsFileKey(fs', k) /\ pc'[p] = "bk_copy"
               /\ backup_path'[p] = backup_path[p]
            \/ /\ fs' = fs /\ pc'[p] = "returned"
               /\ ~result'[p].ok /\ result'[p].err.kind # "AlreadyExists"

\* C19: every step of the retry loop either regenerates the candidate from the
\* current instant after a collision, or leaves the loop with the exclusive
\* create done or with an error that is no collision; and, the clock advancing
\* past the taken names, a safe_back_up in the loop eventually leaves it and
\* returns.
C19_RetryTerminates ==
    /\ [][\A p \in Procs : LoopStep(p)]_vars
    /\ \A p \in Procs : InLoop(p) ~> (pc[p] = "returned")

\* A backup returned after two collisions.
C19_Witness ==
    \E p \in Procs : BackupDone(p) /\ Cardinality(lost[p]) = 2

-----------------------------------------------------------------------------
(* Properties of the working-directory guard *)

\* The guard holds a saved directory: it was created and has not restored it.
Holding(g) == guards[g].state = "live" /\ ~guards[g].saved_dir.none

\* A guard that holds a saved directory is dropped, and the system does not
\* refuse the restore: the working directory is the one current at its creation.
DropRestores(g) ==
    (Holding(g) /\ guards'[g].state = "dropped" /\ guards'[g].res.ok) =>
        cwd' = guards[g].at

\* C20: the drop of a guard created by change(dir) leaves the working directory
\* the one that was current when the guard was created; from its creation to
\* its release, with no other guard moving the working directory, the working
\* directory is dir.
C20_GuardRestores ==
    /\ [][\A g \in Guards : DropRestores(g)]_vars
    /\ [](\A g \in Guards : (Holding(g) /\ ~guards[g].disturbed) =>
              cwd = ResolveAt(guards[g].at, guards[g].dir))

\* A guard that moved the working directory was dropped and restored it.
C20_Witness ==
    \E g \in Guards :
        /\ guards[g].state = "dropped" /\ guards[g].restored = "drop"
        /\ cwd = guards[g].at
        /\ cwd # ResolveAt(guards[g].at, guards[g].dir)

-----------------------------------------------------------------------------
(* C21: the candidate backup path *)

LabelDone(p) == pc[p] = "returned" /\ call[p].op = "generate_backup_path"

\* The fields of an instant in the order of RFC 3339, with "T" and "Z" and no
\* other separator.
PlainStamp(dt) ==
    Digits(dt.year, 4) \o Digits(dt.month, 2) \o Digits(dt.day, 2) \o <<"T">>
    \o Digits(dt.hour, 2) \o Digits(dt.minute, 2) \o Digits(dt.second, 2)
    \o Digits(dt.milli, 3) \o <<"Z">>

\* C21: the candidate keeps the parent directory of the source, its file name
\* is <stem>-<label>.<ext>, or <stem>-<label> for a name without extension,
\* where the label is the RFC 3339 text of the instant to the millisecond
\* without "-", ":" and ".", and the candidate is never the source path.
C21_CandidateName ==
    \A p \in Procs : LabelDone(p) =>
        LET path  == call[p].path
            out   == result[p].val
            label == PlainStamp(call[p].dt)
            stem  == file_stem(path).val
            ext   == extension(path)
        IN  /\ parent(out) = parent(path)
            /\ out.abs = path.abs
            /\ out # path
            /\ Len(label) = 19
            /\ \A i \in 1..Len(label) : label[i] \notin {"-", ":", "."}
            /\ file_name(out) =
                 Some(IF ext.none THEN stem \o <<"-">> \o label
                      ELSE stem \o <<"-">> \o label \o <<".">> \o ext.val)

C21_Witness ==
    \E p \in Procs :
        /\ LabelDone(p)
        /\ call[p].path = AbsPath(<<cD, cABC>>)
        /\ call[p].dt.milli = 999
        /\ result[p].val = AbsPath(<<cD,
             <<"a", ".", "b", "-", "2", "0", "2", "0", "1", "2", "3", "1", "T", "2", "3",
               "5", "9", "5", "9", "9", "9", "9", "Z", ".", "c">> >>)

-----------------------------------------------------------------------------
(* C22: kind() and the is_<kind>() predicates *)

\* The kinds of an error type.
Kinds(ty) ==
    IF ty = "FileReadError" THEN {"IsADirectory", "NotFound", "Other"}
    ELSE IF ty = "JsonError" THEN {"Data", "Eof", "Io", "Syntax", "Other"}
    ELSE IF ty \in {"YamlError", "TomlError"} THEN {"Syntax", "Other"}
    ELSE {"AlreadyExists", "Other"}

\* The kinds whose is_<kind>() predicate answers true of the error.
TrueOf(ty, e) ==
    IF ty = "FileReadError"
    THEN {k \in Kinds(ty) :
            \/ k = "IsADirectory" /\ FileReadError_is_is_a_directory(e)
            \/ k = "NotFound" /\ FileReadError_is_not_found(e)
            \/ k = "Other" /\ FileReadError_is_other(e)}
    ELSE IF ty = "JsonError"
    THEN {k \in Kinds(ty) :
            \/ k = "Data" /\ JsonError_is_data(e)
            \/ k = "Eof" /\ JsonError_is_eof(e)
            \/ k = "Io" /\ JsonError_is_io(e)
            \/ k = "Syntax" /\ JsonError_is_syntax(e)
            \/ k = "Other" /\ JsonError_is_other(e)}
    ELSE IF ty = "YamlError"
    THEN {k \in Kinds(ty) :
            \/ k = "Syntax" /\ YamlError_is_syntax(e)
            \/ k = "Other" /\ YamlError_is_other(e)}
    ELSE IF ty = "TomlError"
    THEN {k \in Kinds(ty) :
            \/ k = "Syntax" /\ TomlError_is_syntax(e)
            \/ k = "Other" /\ TomlError_is_other(e)}
    ELSE {k \in Kinds(ty) :
            \/ k = "AlreadyExists" /\ FileWriteError_is_already_exists(e)
            \/ k = "Other" /\ FileWriteError_is_other(e)}

Failed(p) == pc[p] = "returned" /\ ~result[p].ok

\* C22: of every error an operation returns, kind() is one of the kinds of
\* the error's type, it is the kind named as the internal variant is, and the
\* is_<kind>() predicate of that kind is the only one that holds.
C22_KindAndPredicates ==
    \A p \in Procs : Failed(p) =>
        LET ty == ErrorType(call[p].op)
            e  == result[p].err
        IN  /\ kind(ty, e) \in Kinds(ty)
            /\ kind(ty, e) = e.variant
            /\ TrueOf(ty, e) = {kind(ty, e)}

\* A JSON text of the wrong type was read: the error is Data and only is_data
\* holds of it.
C22_Witness ==
    \E p \in Procs :
        /\ Failed(p) /\ call[p].op = "read_json_file"
        /\ JsonError_kind(result[p].err) = "Data"
        /\ JsonError_is_data(result[p].err)
        /\ ~JsonError_is_io(result[p].err)

-----------------------------------------------------------------------------
(* C23: a copy that fails *)

\* safe_back_up returned an error after its exclusive create had succeeded.
CopyFailed(p) ==
    /\ pc[p] = "returned" /\ call[p].op = "safe_back_up"
    /\ ~result[p].ok /\ won[p] # {}

\* C23: when the copy fails after the exclusive create, safe_back_up returns
\* the copy's I/O error, the file it created is still there, empty or holding
\* the first bytes of the source only, and the source is as it was.
C23_FailedCopyLeavesPlaceholder ==
    \A p \in Procs : CopyFailed(p) =>
        LET q   == Resolve(backup_path[p])
            src == pre[p][Key(p)].data
        IN  /\ result[p].err = IOError("StorageFull")
            /\ won[p] = {q}
            /\ ~Exists(pre[p], q)
            /\ IsFileKey(fs, q)
            /\ Len(fs[q].data) < Len(src)
            /\ fs[q].data = SubSeq(src, 1, Len(fs[q].data))
            /\ fs[Key(p)] = pre[p][Key(p)]
            /\ \A x \in DOMAIN pre[p] : Exists(fs, x) /\ fs[x] = pre[p][x]

\* The copy failed after one byte: a partial backup is on disk.
C23_Witness ==
    \E p \in Procs : CopyFailed(p) /\ Len(fs[Resolve(backup_path[p])].data) = 1

-----------------------------------------------------------------------------
(* C24: close, then close or drop *)

\* The guard's close has restored the saved directory and the guard is not
\* yet dropped.
Closed(g) == guards[g].state = "live" /\ guards[g].restored = "close"

\* A close of the guard restores the saved directory: saved_dir is cleared and
\* the working directory is the saved one.
CloseClears(g) ==
    (Holding(g) /\ guards'[g].restored = "close") =>
        /\ guards'[g].saved_dir.none
        /\ cwd' = guards[g].saved_dir.val.comps

\* Once the guard has restored its directory, no step of the guard restores it
\* again or moves the working directory.
RestoredOnce(g) ==
    (guards[g].state # "none" /\ guards[g].restored # "no") =>
        /\ guards'[g].restored = guards[g].restored
        /\ guards'[g].died = guards[g].died
        /\ guards'[g].saved_dir.none
        /\ guards'[g].state # guards[g].state => cwd' = cwd

\* C24: a successful close clears the saved directory, and a close or a drop
\* after it changes no directory, also when the working directory has been
\* changed again since: a guard restores the working directory at most once.
C24_CloseThenDrop ==
    /\ [][\A g \in Guards : CloseClears(g) /\ RestoredOnce(g)]_vars
    /\ [](\A g \in Guards : Closed(g) =>
            \A can \in BOOLEAN :
                LET r == WorkingDirectory_close(fs, cwd, guards[g].saved_dir, can)
                IN  r.cwd = cwd /\ r.res = Ok(Unit) /\ r.saved_dir.none)

\* A guard was closed, the working directory was changed again, and the guard
\* was dropped: the working directory is not the one the guard had saved.
C24_Witness ==
    \E g \in Guards :
        /\ guards[g].state = "dropped" /\ guards[g].restored = "close"
        /\ cwd # guards[g].at

-----------------------------------------------------------------------------
(* C25: nested guards *)

\* The guards that change returned.
Made == {g \in Guards : guards[g].born > 0}

\* Every guard made has restored its saved directory, by close or by drop.
AllReleased == \A g \in Made : guards[g].died > 0

\* The guards were nested: each was made before any was released.
Nested == \A g, h \in Made : guards[g].born < guards[h].died

ReverseOrder ==
    \A g, h \in Made : guards[g].born < guards[h].born => guards[h].died < guards[g].died

CreationOrder ==
    \A g, h \in Made : guards[g].born < guards[h].born => guards[g].died < guards[h].died

FirstMade == CHOOSE g \in Made : \A h \in Made : guards[g].born <= guards[h].born

LastReleased == CHOOSE g \in Made : \A h \in Made : guards[h].died <= guards[g].died

\* C25: when nested guards have all been released, in the reverse of the order
\* of their creation, the working directory is the one from before the first
\* change; when they have been released in the order of their creation, it is
\* the directory the guard released last had saved.
C25_NestedRelease ==
    (Made # {} /\ AllReleased /\ Nested) =>
        /\ ReverseOrder => cwd = guards[FirstMade].at
        /\ CreationOrder => cwd = guards[LastReleased].at

\* Three nested guards were released in the order of their creation: the
\* working directory is the one the third had saved, not the original.
C25_Witness ==
    /\ Cardinality(Made) = 3 /\ AllReleased /\ Nested /\ CreationOrder
    /\ cwd = guards[LastReleased].at
    /\ cwd # guards[FirstMade].at

-----------------------------------------------------------------------------
(* C26: change and close that fail *)

\* change fails on the step: no guard is made and the working directory stays.
ChangeFails(g) ==
    (guards[g].state = "none" /\ guards'[g].state = "failed") =>
        /\ ~guards'[g].res.ok
        /\ guards'[g].saved_dir.none /\ guards'[g].born = 0
        /\ cwd' = cwd

\* close, called or run by drop, fails on the step: the saved directory is
\* kept and the working directory stays.
CloseFails(g) ==
    (Holding(g) /\ guards[g].res.ok /\ ~guards'[g].res.ok) =>
        /\ guards'[g].saved_dir = guards[g].saved_dir
        /\ guards'[g].restored = "no"
        /\ cwd' = cwd

\* The guard's close has failed and the guard still holds the saved directory.
Unrestored(g) == Holding(g) /\ ~guards[g].res.ok

\* C26: a change that fails, the working directory unreadable or the target
\* not to be entered, returns no guard and leaves the working directory; a
\* close that fails keeps the saved directory, and a close or drop after it
\* sets the working directory to it again.
C26_FailuresKeepState ==
    /\ [][\A g \in Guards : ChangeFails(g) /\ CloseFails(g)]_vars
    /\ [](\A g \in Guards :
            /\ guards[g].state = "failed" =>
                   \/ guards[g].res.err = IOError("NotFound")
                   \/ ~IsDirKey(fs, ResolveAt(guards[g].at, guards[g].dir))
                   \/ guards[g].res.err = IOError("PermissionDenied")
            /\ Unrestored(g) =>
                   LET r == WorkingDirectory_close(fs, cwd, guards[g].saved_dir, TRUE)
                   IN  /\ r.res.ok /\ r.saved_dir.none
                       /\ r.cwd = guards[g].saved_dir.val.comps
                       /\ r.cwd = guards[g].at)

\* A change has failed, and the close of a guard has failed with the working
\* directory still the one the guard entered.
C26_Witness ==
    /\ \E h \in Guards : guards[h].state = "failed" /\ cwd = guards[h].at
    /\ \E g \in Guards : Unrestored(g) /\ cwd # guards[g].at

-----------------------------------------------------------------------------
(* C27: limit 0 and negative limits *)

FindCalled == find.pc # "idle"

\* The search has returned what a search of the whole ancestor chain returns.
BoundedByRootOnly ==
    /\ Hops = {} => find.result = None
    /\ Hops # {} => FoundAt(Min(Hops))

\* C27: with limit 0 the search returns None and inspects nothing, also when
\* start_dir holds the sentinel; with a negative limit the count is never 0
\* and the search ends only by a match or at the root.
C27_ZeroAndNegativeLimit ==
    /\ (FindCalled /\ find.limit = Some(0)) =>
          /\ find.inspected = {}
          /\ find.pc # "panicked"
          /\ FindDone => find.result = None
    /\ (FindCalled /\ ~find.limit.none /\ find.limit.val < 0) =>
          /\ find.count # 0
          /\ find.pc # "panicked"
          /\ FindDone => BoundedByRootOnly

-----------------------------------------------------------------------------
(* C28: the search terminates *)

FindOver == find.pc \in {"done", "panicked"}

\* A turn of the loop ends the search or puts the strict parent of the current
\* directory in its place.
Iteration ==
    find.pc = "loop" =>
        \/ find'.pc = "done"
        \/ /\ parent(find.dir) = Some(find'.dir)
           /\ Len(find'.dir.comps) < Len(find.dir.comps)

\* C28: for every start_dir and every limit, None and the negative ones
\* included, every turn of the loop returns or moves to the strict parent, and
\* a search that was called is over after finitely many turns.
C28_SearchTerminates ==
    /\ [][Iteration]_vars
    /\ (find.pc = "loop") ~> FindOver

\* A search with a negative limit has ended at the root, five directories
\* above its start.
C28_Witness ==
    /\ FindDone /\ find.limit = Some(-1) /\ find.result = None
    /\ Len(find.start.comps) = 5 /\ find.dir.comps = <<>>
    /\ find.count = -6

-----------------------------------------------------------------------------
(* C29: an entry of the wrong type *)

\* The sentinel path h hops above the start of the search.
SentinelPathAt(h) == join(Ancestor(find.start, h), find.name)

\* The hops at which the sentinel name is an entry of the type searched for: a
\* directory for find_sentinel_dir, a regular file for find_sentinel_file.
RightTypeHops ==
    { h \in 0..Len(find.start.comps) :
        IF find.kind = "dir" THEN IsDirKey(fs, SentinelPathAt(h).comps)
        ELSE IsFileKey(fs, SentinelPathAt(h).comps) }

\* The hops at which the sentinel name is an entry of the other type.
WrongTypeHops ==
    { h \in 0..Len(find.start.comps) :
        IF find.kind = "dir" THEN IsFileKey(fs, SentinelPathAt(h).comps)
        ELSE IsDirKey(fs, SentinelPathAt(h).comps) }

\* The search may inspect the directory h hops above the start: its count
\* is not used up before.
WithinLimit(h) ==
    \/ find.limit.none
    \/ find.limit.val < 0
    \/ h < find.limit.val

\* C29: a level where the sentinel name is of the wrong type, a regular file
\* for find_sentinel_dir or a directory for find_sentinel_file, is never the
\* result and does not end the search: the search goes on to the level above,
\* and returns the nearest ancestor where the name is of the wanted type.
C29_WrongTypeSkipped ==
    FindDone =>
        \A h \in WrongTypeHops :
            /\ find.result # Some(SentinelPathAt(h))
            /\ (h < Len(find.start.comps) /\ WithinLimit(h + 1)
                  /\ \A i \in RightTypeHops : i > h) =>
                   SentinelPathAt(h + 1) \in find.inspected
            /\ \A j \in RightTypeHops :
                 (j > h /\ WithinLimit(j) /\ \A i \in RightTypeHops : i >= j) => FoundAt(j)

\* find_sentinel_dir passed a regular file of the sentinel's name in start_dir
\* and returned the directory of that name two levels above.
C29_Witness ==
    /\ FindDone /\ find.kind = "dir"
    /\ WrongTypeHops = {0}
    /\ RightTypeHops = {2} /\ FoundAt(2)

-----------------------------------------------------------------------------
(* C30: the kinds of the YAML and TOML errors *)

YamlTomlReaders == {"read_yaml_file", "read_toml_file", "read_toml_file_edit"}

\* The text is a well-formed document of the reader's format.
WellFormed(op, s) ==
    IF op = "read_yaml_file" THEN serde_yaml_from_str(s, "Value").ok
    ELSE toml_parse(s).ok

\* C30: an error of read_yaml_file, read_toml_file or read_toml_file_edit is of
\* kind Other exactly when the file could not be read, and then its cause is
\* the reader's FileReadError; it is of kind Syntax exactly when the file was
\* read and the parser failed, whether on a malformed text or on a well-formed
\* text that is not of the target type.
C30_YamlTomlKinds ==
    \A p \in Procs : (FormatDone(p) /\ call[p].op \in YamlTomlReaders) =>
        /\ result[p].ok => call[p].read
        /\ ~result[p].ok =>
             LET e == result[p].err
                 k == kind(ErrorType(call[p].op), e)
             IN  /\ k = "Other" <=> ~call[p].read
                 /\ k = "Syntax" <=> call[p].read
                 /\ ~call[p].read => e.inner.type = "FileReadError"
                 /\ (call[p].read /\ WellFormed(call[p].op, call[p].s)) =>
                        /\ call[p].ty # "Value"
                        /\ k = "Syntax"
                        /\ e.variant = "Syntax"

\* The YAML text 1 was read for a table: the parser's type mismatch came back
\* as Syntax.
C30_Witness ==
    \E p \in Procs :
        /\ FormatDone(p) /\ call[p].op = "read_yaml_file" /\ call[p].read
        /\ call[p].s = <<"1">> /\ call[p].ty = "Table"
        /\ ~result[p].ok /\ YamlError_is_syntax(result[p].err)

====
